---------------------------- MODULE Spec2Model ----------------------------
(***************************************************************************)
(* PhysioApp risk scorer (src/src/services/assessmentService.ts).          *)
(*                                                                         *)
(* An assessment request body is assembled answer by answer and is then    *)
(* handed once to processAssessmentData; calls holds the activations of    *)
(* the scorer that are in progress.  JavaScript values are tagged          *)
(* records, so that ===, ||, parseInt and property access on undefined     *)
(* behave as they do in the source.                                        *)
(***************************************************************************)
EXTENDS Integers, Sequences, FiniteSets, TLC

VARIABLES data, result, pc, filled, calls, fileServer, wizard, database

vars == <<data, result, pc, filled, calls, fileServer, wizard, database>>

(***************************************************************************)
(* Bounds of the explored input space.                                     *)
(***************************************************************************)
MaxAnswers == 2

(***************************************************************************)
(* JavaScript values.                                                      *)
(***************************************************************************)
Undefined == [t |-> "undefined"]
Str(s) == [t |-> "string", s |-> s]
Num(n) == [t |-> "number", n |-> n]
Arr(a) == [t |-> "array", a |-> a]
Obj(o) == [t |-> "object", o |-> o]

\* JavaScript truthiness, as used by `x || default`.
Truthy(v) ==
  CASE v.t = "undefined" -> FALSE
    [] v.t = "string" -> v.s # ""
    [] v.t = "number" -> v.n # 0
    [] OTHER -> TRUE

\* Variant: any string answer counts, whatever it says.
StrictEq_anyString(v, lit) == v.t = "string"

\* v === 'literal'
StrictEq(v, lit) == v.t = "string" /\ v.s = lit

\* Variant: only the first element is looked at.
Includes_firstOnly(v, x) == Len(v.a) > 0 /\ v.a[1] = x

\* Array.prototype.includes on an array of strings.
Includes(v, x) == \E i \in 1..Len(v.a) : v.a[i] = x

\* A value on which `.includes(...)` is not a function makes the call raise.
NoIncludes(v) == v.t \notin {"array", "string"}

(***************************************************************************)
(* Characters of the strings the code takes apart (replace, parseInt).     *)
(***************************************************************************)
Chars(s) ==
  CASE s = "weight_loss" -> <<"w","e","i","g","h","t","_","l","o","s","s">>
    [] s = "corticosteroids" -> <<"c","o","r","t","i","c","o","s","t","e","r","o","i","d","s">>
    [] s = "constant_pain" -> <<"c","o","n","s","t","a","n","t","_","p","a","i","n">>
    [] s = "cancer_history" -> <<"c","a","n","c","e","r","_","h","i","s","t","o","r","y">>
    [] s = "general_symptoms" -> <<"g","e","n","e","r","a","l","_","s","y","m","p","t","o","m","s">>
    [] s = "night_pain" -> <<"n","i","g","h","t","_","p","a","i","n">>
    [] s = "weight_bearing" -> <<"w","e","i","g","h","t","_","b","e","a","r","i","n","g">>
    [] s = "neurological_symptoms" -> <<"n","e","u","r","o","l","o","g","i","c","a","l","_","s","y","m","p","t","o","m","s">>
    [] s = "bowel_bladder" -> <<"b","o","w","e","l","_","b","l","a","d","d","e","r">>
    [] s = "fever" -> <<"f","e","v","e","r">>
    [] s = "lower_back" -> <<"l","o","w","e","r","_","b","a","c","k">>
    [] s = "neck" -> <<"n","e","c","k">>
    [] s = "head" -> <<"h","e","a","d">>
    [] s = "shoulder_left" -> <<"s","h","o","u","l","d","e","r","_","l","e","f","t">>
    [] s = "knee_left" -> <<"k","n","e","e","_","l","e","f","t">>
    [] s = "chest" -> <<"c","h","e","s","t">>
    [] s = "elbow_left" -> <<"e","l","b","o","w","_","l","e","f","t">>
    [] s = "wrist_left" -> <<"w","r","i","s","t","_","l","e","f","t">>
    [] s = "elbow_right" -> <<"e","l","b","o","w","_","r","i","g","h","t">>
    [] s = "wrist_right" -> <<"w","r","i","s","t","_","r","i","g","h","t">>
    [] s = "back" -> <<"b","a","c","k">>
    [] s = "knee" -> <<"k","n","e","e">>
    [] s = "shoulder" -> <<"s","h","o","u","l","d","e","r">>
    [] s = "8" -> <<"8">>
    [] s = "severe" -> <<"s","e","v","e","r","e">>
    [] s = "undefined" -> <<"u","n","d","e","f","i","n","e","d">>

\* String.prototype.replace(pattern, by) with a string pattern: the first
\* occurrence only.
RECURSIVE replace(_, _, _)
replace(cs, pat, by) ==
  IF cs = <<>> THEN <<>>
  ELSE IF Head(cs) = pat THEN <<by>> \o Tail(cs)
  ELSE <<Head(cs)>> \o replace(Tail(cs), pat, by)

\* Array.prototype.join over an array of strings (each a sequence of pieces).
RECURSIVE join(_, _)
join(strs, sep) ==
  IF strs = <<>> THEN <<>>
  ELSE IF Len(strs) = 1 THEN Head(strs)
  ELSE Head(strs) \o <<sep>> \o join(Tail(strs), sep)

IsDigit(c) == c \in {"0","1","2","3","4","5","6","7","8","9"}

DigitVal(c) ==
  CASE c = "0" -> 0 [] c = "1" -> 1 [] c = "2" -> 2 [] c = "3" -> 3
    [] c = "4" -> 4 [] c = "5" -> 5 [] c = "6" -> 6 [] c = "7" -> 7
    [] c = "8" -> 8 [] c = "9" -> 9

DigitChar(d) ==
  CASE d = 0 -> "0" [] d = 1 -> "1" [] d = 2 -> "2" [] d = 3 -> "3"
    [] d = 4 -> "4" [] d = 5 -> "5" [] d = 6 -> "6" [] d = 7 -> "7"
    [] d = 8 -> "8" [] d = 9 -> "9"

\* String(n) for an integer n.
RECURSIVE NatChars(_)
NatChars(n) == IF n < 10 THEN <<DigitChar(n)>> ELSE NatChars(n \div 10) \o <<DigitChar(n % 10)>>

\* String(v), the first thing parseInt does to its argument.
ToChars(v) ==
  CASE v.t = "undefined" -> Chars("undefined")
    [] v.t = "string" -> Chars(v.s)
    [] v.t = "number" -> IF v.n < 0 THEN <<"-">> \o NatChars(-v.n) ELSE NatChars(v.n)

RECURSIVE SkipSpace(_)
SkipSpace(cs) == IF cs # <<>> /\ Head(cs) = " " THEN SkipSpace(Tail(cs)) ELSE cs

RECURSIVE DigitsValue(_, _)
DigitsValue(cs, acc) ==
  IF cs # <<>> /\ IsDigit(Head(cs)) THEN DigitsValue(Tail(cs), 10 * acc + DigitVal(Head(cs))) ELSE acc

NaN == [nan |-> TRUE, n |-> 0]

\* parseInt(v): leading white space, an optional sign, then the longest run
\* of decimal digits; NaN when there is none.
parseInt(v) ==
  LET s == SkipSpace(ToChars(v))
      neg == s # <<>> /\ Head(s) = "-"
      body == IF s # <<>> /\ Head(s) \in {"-", "+"} THEN Tail(s) ELSE s
  IN IF body = <<>> \/ ~IsDigit(Head(body)) THEN NaN
     ELSE [nan |-> FALSE, n |-> IF neg THEN -DigitsValue(body, 0) ELSE DigitsValue(body, 0)]

\* parseInt(v) || 0
parseIntOrZero(v) == LET p == parseInt(v) IN IF p.nan THEN 0 ELSE p.n

(***************************************************************************)
(* The answer set: sections and their fields.                              *)
(***************************************************************************)
redFlagQuestions ==
  <<"weight_loss", "corticosteroids", "constant_pain", "cancer_history",
    "general_symptoms", "night_pain", "weight_bearing", "neurological_symptoms",
    "bowel_bladder", "fever">>

SectionNames ==
  {"screening_questions", "symptom_onset", "functional_assessment",
   "medical_history", "demographics"}

SectionFields(sec) ==
  CASE sec = "screening_questions" ->
         {redFlagQuestions[i] : i \in 1..Len(redFlagQuestions)} \cup {"accident_cause"}
    [] sec = "symptom_onset" -> {"pain_level", "duration", "pain_pattern", "pain_type"}
    [] sec = "functional_assessment" ->
         {"work_impact", "sleep_impact", "movement_patterns", "activities_avoided",
          "assistance_needed"}
    [] sec = "medical_history" ->
         {"previous_injuries", "surgery_history", "chronic_conditions", "medications"}
    [] sec = "demographics" -> {"age", "activity_level"}

\* {} read through the fields the scorer looks at: every property undefined.
EmptySections == [sec \in SectionNames |-> [f \in SectionFields(sec) |-> Undefined]]

EmptySection(sec) == EmptySections[sec]

EmptyAnswers == Obj([s \in SectionNames |-> Undefined])

EmptyData == [selectedBodyParts |-> Arr(<<>>), answers |-> EmptyAnswers]

\* data.answers.<sec> || {}
SectionOf(d, sec) ==
  LET s == d.answers.o[sec] IN IF Truthy(s) THEN s.o ELSE EmptySection(sec)

\* <field> || []
OrEmptyArray(v) == IF Truthy(v) THEN v ELSE Arr(<<>>)


(***************************************************************************)
(* checkRedFlags                                                           *)
(***************************************************************************)
\* data.answers.screening_questions raises when data.answers is undefined.
checkRedFlagsThrows(d) == d.answers.t = "undefined"

RECURSIVE redFlagsFrom(_, _)
redFlagsFrom(screeningAnswers, i) ==
  IF i > Len(redFlagQuestions) THEN <<>>
  ELSE LET question == redFlagQuestions[i]
       IN (IF StrictEq(screeningAnswers[question], "yes")
           THEN <<replace(Chars(question), "_", " ")>>
           ELSE <<>>) \o redFlagsFrom(screeningAnswers, i + 1)

\* Variant: the loop starts one key too late.
checkRedFlags_skipFirst(d) == redFlagsFrom(SectionOf(d, "screening_questions"), 2)

checkRedFlags(d) == redFlagsFrom(SectionOf(d, "screening_questions"), 1)

(***************************************************************************)
(* assessRiskLevel: the rules in the order of the source.  acc is the pair *)
(* (riskScore, riskFactors) a rule adds to.                                *)
(***************************************************************************)
Add(acc, w, factor) ==
  [riskScore |-> acc.riskScore + w, riskFactors |-> Append(acc.riskFactors, <<factor>>)]

AddIf(acc, cond, w, factor) == IF cond THEN Add(acc, w, factor) ELSE acc

\* Variant: the weight per red flag of the constant-weight scorer.
redFlagRule_tenEach(acc, redFlags) ==
  IF Len(redFlags) > 0
  THEN [riskScore |-> acc.riskScore + Len(redFlags) * 10,
        riskFactors |-> Append(acc.riskFactors, <<"Red flags: ">> \o join(redFlags, ", "))]
  ELSE acc

\* Variant: the red flags are listed as a factor but carry no weight.
redFlagRule_noWeight(acc, redFlags) ==
  IF Len(redFlags) > 0
  THEN [riskScore |-> acc.riskScore,
        riskFactors |-> Append(acc.riskFactors, <<"Red flags: ">> \o join(redFlags, ", "))]
  ELSE acc

redFlagRule(acc, redFlags) ==
  IF Len(redFlags) > 0
  THEN [riskScore |-> acc.riskScore + Len(redFlags) * 15,
        riskFactors |-> Append(acc.riskFactors, <<"Red flags: ">> \o join(redFlags, ", "))]
  ELSE acc

\* Variant: strict comparisons at the bucket boundaries.
painLevelRule_strict(acc, painLevel) ==
  LET f(name) == <<name, ToString(painLevel), "/10)">>
      put(w, name) == [riskScore |-> acc.riskScore + w,
                       riskFactors |-> Append(acc.riskFactors, f(name))]
  IN IF painLevel > 9 THEN put(12, "Very severe pain (level ")
     ELSE IF painLevel > 7 THEN put(8, "Severe pain (level ")
     ELSE IF painLevel > 5 THEN put(5, "Moderate pain (level ")
     ELSE IF painLevel > 3 THEN put(2, "Mild pain (level ")
     ELSE acc

\* Variant: the top bucket's weight grows with the level.
painLevelRule_scaled(acc, painLevel) ==
  LET f(name) == <<name, ToString(painLevel), "/10)">>
      put(w, name) == [riskScore |-> acc.riskScore + w,
                       riskFactors |-> Append(acc.riskFactors, f(name))]
  IN IF painLevel >= 9 THEN put(painLevel + 3, "Very severe pain (level ")
     ELSE IF painLevel >= 7 THEN put(8, "Severe pain (level ")
     ELSE IF painLevel >= 5 THEN put(5, "Moderate pain (level ")
     ELSE IF painLevel >= 3 THEN put(2, "Mild pain (level ")
     ELSE acc

painLevelRule(acc, painLevel) ==
  LET f(name) == <<name, ToString(painLevel), "/10)">>
      put(w, name) == [riskScore |-> acc.riskScore + w,
                       riskFactors |-> Append(acc.riskFactors, f(name))]
  IN IF painLevel >= 9 THEN put(12, "Very severe pain (level ")
     ELSE IF painLevel >= 7 THEN put(8, "Severe pain (level ")
     ELSE IF painLevel >= 5 THEN put(5, "Moderate pain (level ")
     ELSE IF painLevel >= 3 THEN put(2, "Mild pain (level ")
     ELSE acc

durationRule(acc, duration) ==
  IF StrictEq(duration, "More than 6 months") THEN Add(acc, 5, "Chronic symptoms (>6 months)")
  ELSE IF StrictEq(duration, "3-6 months") THEN Add(acc, 3, "Prolonged symptoms (3-6 months)")
  ELSE IF StrictEq(duration, "1-3 months") THEN Add(acc, 2, "Persistent symptoms (1-3 months)")
  ELSE IF StrictEq(duration, "1-4 weeks") THEN Add(acc, 1, "Recent symptoms (1-4 weeks)")
  ELSE acc

\* Variant: the comparison ignores the case of the first letter.
workImpactRule_anyCase(acc, workImpact) ==
  IF StrictEq(workImpact, "Unable to work/perform activities")
  THEN Add(acc, 8, "Severe functional limitation")
  ELSE IF StrictEq(workImpact, "Severely") \/ StrictEq(workImpact, "severely")
  THEN Add(acc, 6, "Significant functional impact")
  ELSE IF StrictEq(workImpact, "Moderately") \/ StrictEq(workImpact, "moderately")
  THEN Add(acc, 4, "Moderate functional impact")
  ELSE IF StrictEq(workImpact, "Slightly") \/ StrictEq(workImpact, "slightly")
  THEN Add(acc, 2, "Mild functional impact")
  ELSE acc

workImpactRule(acc, workImpact) ==
  IF StrictEq(workImpact, "Unable to work/perform activities")
  THEN Add(acc, 8, "Severe functional limitation")
  ELSE IF StrictEq(workImpact, "Severely") THEN Add(acc, 6, "Significant functional impact")
  ELSE IF StrictEq(workImpact, "Moderately") THEN Add(acc, 4, "Moderate functional impact")
  ELSE IF StrictEq(workImpact, "Slightly") THEN Add(acc, 2, "Mild functional impact")
  ELSE acc

sleepImpactRule(acc, sleepImpact) ==
  IF StrictEq(sleepImpact, "Unable to sleep due to symptoms")
  THEN Add(acc, 7, "Severe sleep disturbance")
  ELSE IF StrictEq(sleepImpact, "Frequent sleep disturbance")
  THEN Add(acc, 5, "Frequent sleep problems")
  ELSE IF StrictEq(sleepImpact, "Occasional sleep disturbance")
  THEN Add(acc, 3, "Occasional sleep problems")
  ELSE acc

painPatternRules(acc, painPattern) ==
  LET a1 == AddIf(acc, Includes(painPattern, "Constant"), 6, "Constant pain pattern")
      a2 == AddIf(a1, Includes(painPattern, "At night"), 5, "Night pain")
      a3 == AddIf(a2, Includes(painPattern, "When moving"), 3, "Movement-related pain")
      a4 == AddIf(a3, Includes(painPattern, "In the morning"), 2, "Morning stiffness/pain")
  IN AddIf(a4, Includes(painPattern, "After activity"), 2, "Post-activity pain")

\* Variant: numbness is looked at before tingling.
painTypeRules_numbnessFirst(acc, painType) ==
  LET a1 == AddIf(acc, Includes(painType, "Sharp"), 4, "Sharp pain")
      a2 == AddIf(a1, Includes(painType, "Burning"), 3, "Burning pain")
      a3 == AddIf(a2, Includes(painType, "Numbness"), 4, "Numbness")
      a4 == AddIf(a3, Includes(painType, "Tingling"), 3, "Tingling sensation")
  IN AddIf(a4, Includes(painType, "Weakness"), 5, "Muscle weakness")

painTypeRules(acc, painType) ==
  LET a1 == AddIf(acc, Includes(painType, "Sharp"), 4, "Sharp pain")
      a2 == AddIf(a1, Includes(painType, "Burning"), 3, "Burning pain")
      a3 == AddIf(a2, Includes(painType, "Tingling"), 3, "Tingling sensation")
      a4 == AddIf(a3, Includes(painType, "Numbness"), 4, "Numbness")
  IN AddIf(a4, Includes(painType, "Weakness"), 5, "Muscle weakness")

\* v.length > 0: undefined > 0 is false for a value without a length.
LengthPositive(v) == v.t = "array" /\ Len(v.a) > 0

\* surgeryHistory.length > 0 && !surgeryHistory.includes('None')
hasHistory(v) == LengthPositive(v) /\ ~Includes(v, "None")

medicalHistoryRules(acc, medicalAnswers) ==
  LET surgeryHistory == OrEmptyArray(medicalAnswers["surgery_history"])
      chronicConditions == OrEmptyArray(medicalAnswers["chronic_conditions"])
      a1 == AddIf(acc, StrictEq(medicalAnswers["previous_injuries"], "yes"), 3,
                  "Previous injuries to affected area")
      a2 == AddIf(a1, hasHistory(surgeryHistory), 4, "Previous surgeries")
      a3 == AddIf(a2, hasHistory(chronicConditions), 3, "Chronic medical conditions")
  IN AddIf(a3, StrictEq(medicalAnswers["medications"], "yes"), 2,
           "Currently taking medications")

\* Variant: the weight is added without a factor.
accidentRule_silent(acc, screeningAnswers) ==
  IF StrictEq(screeningAnswers["accident_cause"], "yes")
  THEN [acc EXCEPT !.riskScore = @ + 4]
  ELSE acc

accidentRule(acc, screeningAnswers) ==
  AddIf(acc, StrictEq(screeningAnswers["accident_cause"], "yes"), 4,
        "Symptoms caused by accident/fall")

highRiskAreas == {"lower_back", "upper_back", "neck", "head"}
moderateRiskAreas ==
  {"shoulder_left", "shoulder_right", "knee_left", "knee_right", "hip_left",
   "hip_right", "chest"}
spineAreas == {"lower_back", "upper_back", "neck"}
jointAreas ==
  {"shoulder_left", "shoulder_right", "knee_left", "knee_right", "hip_left",
   "hip_right", "elbow_left", "elbow_right", "ankle_left", "ankle_right"}

\* Variant: every instead of some.
someIn_every(selectedAreas, areas) ==
  \A i \in 1..Len(selectedAreas.a) : selectedAreas.a[i] \in areas

\* selectedAreas.some(area => areas.includes(area))
someIn(selectedAreas, areas) == \E i \in 1..Len(selectedAreas.a) : selectedAreas.a[i] \in areas

\* Variant: the high-risk weight is added once per matching area.
bodyAreaRules_perArea(acc, selectedAreas) ==
  LET n == Cardinality({i \in 1..Len(selectedAreas.a) : selectedAreas.a[i] \in highRiskAreas})
      a1 == AddIf(acc, n > 0, 2 * n, "High-risk body area affected")
  IN AddIf(a1, someIn(selectedAreas, moderateRiskAreas), 1, "Moderate-risk body area affected")

bodyAreaRules(acc, selectedAreas) ==
  LET a1 == AddIf(acc, someIn(selectedAreas, highRiskAreas), 2, "High-risk body area affected")
  IN AddIf(a1, someIn(selectedAreas, moderateRiskAreas), 1, "Moderate-risk body area affected")

\* functionalAnswers.movement_patterns?.includes('Walking')
optionalIncludes(v, x) == v.t # "undefined" /\ Includes(v, x)

\* Variant: the rules are gated on the high-risk areas, head included.
spineRules_highRisk(acc, selectedAreas, painType, painPattern, functionalAnswers) ==
  IF someIn(selectedAreas, highRiskAreas)
  THEN LET a1 == AddIf(acc, Includes(painType, "Tingling") \/ Includes(painType, "Numbness"),
                       3, "Spine-related neurological symptoms")
           a2 == AddIf(a1, Includes(painPattern, "Constant"), 2, "Constant spine pain")
       IN AddIf(a2, optionalIncludes(functionalAnswers["movement_patterns"], "Walking"), 2,
                "Spine pain affecting walking")
  ELSE acc

spineRules(acc, selectedAreas, painType, painPattern, functionalAnswers) ==
  IF someIn(selectedAreas, spineAreas)
  THEN LET a1 == AddIf(acc, Includes(painType, "Tingling") \/ Includes(painType, "Numbness"),
                       3, "Spine-related neurological symptoms")
           a2 == AddIf(a1, Includes(painPattern, "Constant"), 2, "Constant spine pain")
       IN AddIf(a2, optionalIncludes(functionalAnswers["movement_patterns"], "Walking"), 2,
                "Spine pain affecting walking")
  ELSE acc

jointRules(acc, selectedAreas, painType, functionalAnswers) ==
  IF someIn(selectedAreas, jointAreas)
  THEN LET a1 == AddIf(acc, Includes(painType, "Weakness"), 3, "Joint-related muscle weakness")
       IN AddIf(a1, StrictEq(functionalAnswers["assistance_needed"], "yes"), 2,
                "Joint requiring assistance")
  ELSE acc

demographicsRules(acc, demographicsAnswers) ==
  LET age == demographicsAnswers["age"]
      a1 == IF StrictEq(age, "70+ years") THEN Add(acc, 3, "Advanced age (70+)")
            ELSE IF StrictEq(age, "60 - 69 years") THEN Add(acc, 2, "Older age (60-69)")
            ELSE acc
  IN AddIf(a1, StrictEq(demographicsAnswers["activity_level"],
                        "Extremely active (very hard exercise, physical job)"),
           2, "Extremely active lifestyle")

movementRules(acc, movementPatterns) ==
  LET a1 == AddIf(acc, Includes(movementPatterns, "Lifting objects"), 2, "Pain with lifting")
      a2 == AddIf(a1, Includes(movementPatterns, "Reaching overhead"), 2,
                  "Pain with overhead activities")
      a3 == AddIf(a2, Includes(movementPatterns, "Bending forward"), 3,
                  "Pain with forward bending")
      a4 == AddIf(a3, Includes(movementPatterns, "Bending backward"), 3,
                  "Pain with backward bending")
      a5 == AddIf(a4, Includes(movementPatterns, "Twisting/rotating"), 3,
                  "Pain with twisting/rotation")
      a6 == AddIf(a5, Includes(movementPatterns, "Walking"), 4, "Pain with walking")
  IN AddIf(a6, Includes(movementPatterns, "Climbing stairs"), 3, "Pain with stair climbing")

avoidedRules(acc, activitiesAvoided) ==
  LET a1 == AddIf(acc, Includes(activitiesAvoided, "Exercise/sports"), 2,
                  "Avoiding exercise due to pain")
  IN AddIf(a1, Includes(activitiesAvoided, "Work activities"), 3, "Work activities affected")

\* Variant: any answer to the question counts, 'no' included.
assistanceRule_anyAnswer(acc, functionalAnswers) ==
  AddIf(acc, functionalAnswers["assistance_needed"].t = "string", 4,
        "Requires assistance with daily activities")

assistanceRule(acc, functionalAnswers) ==
  AddIf(acc, StrictEq(functionalAnswers["assistance_needed"], "yes"), 4,
        "Requires assistance with daily activities")

\* Variant: strict comparisons at the thresholds.
riskLevelOf_strict(riskScore, redFlags) ==
  IF riskScore > 12 \/ Len(redFlags) > 0 THEN "HIGH"
  ELSE IF riskScore > 6 THEN "MEDIUM"
  ELSE "LOW"

riskLevelOf(riskScore, redFlags) ==
  IF riskScore >= 12 \/ Len(redFlags) > 0 THEN "HIGH"
  ELSE IF riskScore >= 6 THEN "MEDIUM"
  ELSE "LOW"

\* The inputs on which assessRiskLevel raises a TypeError instead of returning.
assessRiskLevelThrows(d) ==
  \/ checkRedFlagsThrows(d)
  \/ NoIncludes(OrEmptyArray(SectionOf(d, "symptom_onset")["pain_pattern"]))
  \/ NoIncludes(OrEmptyArray(SectionOf(d, "symptom_onset")["pain_type"]))
  \/ d.selectedBodyParts.t = "undefined"
  \/ /\ someIn(d.selectedBodyParts, spineAreas)
     /\ SectionOf(d, "functional_assessment")["movement_patterns"].t # "undefined"
     /\ NoIncludes(SectionOf(d, "functional_assessment")["movement_patterns"])
  \/ NoIncludes(OrEmptyArray(SectionOf(d, "functional_assessment")["movement_patterns"]))
  \/ NoIncludes(OrEmptyArray(SectionOf(d, "functional_assessment")["activities_avoided"]))

assessRiskLevel(d) ==
  LET redFlags == checkRedFlags(d)
      symptomAnswers == SectionOf(d, "symptom_onset")
      functionalAnswers == SectionOf(d, "functional_assessment")
      medicalAnswers == SectionOf(d, "medical_history")
      screeningAnswers == SectionOf(d, "screening_questions")
      painLevel == parseIntOrZero(symptomAnswers["pain_level"])
      painPattern == OrEmptyArray(symptomAnswers["pain_pattern"])
      painType == OrEmptyArray(symptomAnswers["pain_type"])
      selectedAreas == d.selectedBodyParts
      demographicsAnswers == SectionOf(d, "demographics")
      movementPatterns == OrEmptyArray(functionalAnswers["movement_patterns"])
      activitiesAvoided == OrEmptyArray(functionalAnswers["activities_avoided"])
      \* No rule reads riskScore or riskFactors, it only adds and pushes: what
      \* the rule groups accumulate one after the other is the sum and the
      \* concatenation, in the order of the source, of what each adds.
      a0 == [riskScore |-> 0, riskFactors |-> <<>>]
      a1 == redFlagRule(a0, redFlags)
      a2 == painLevelRule(a0, painLevel)
      a3 == durationRule(a0, symptomAnswers["duration"])
      a4 == workImpactRule(a0, functionalAnswers["work_impact"])
      a5 == sleepImpactRule(a0, functionalAnswers["sleep_impact"])
      a6 == painPatternRules(a0, painPattern)
      a7 == painTypeRules(a0, painType)
      a8 == medicalHistoryRules(a0, medicalAnswers)
      a9 == accidentRule(a0, screeningAnswers)
      a10 == bodyAreaRules(a0, selectedAreas)
      a11 == spineRules(a0, selectedAreas, painType, painPattern, functionalAnswers)
      a12 == jointRules(a0, selectedAreas, painType, functionalAnswers)
      a13 == demographicsRules(a0, demographicsAnswers)
      a14 == movementRules(a0, movementPatterns)
      a15 == avoidedRules(a0, activitiesAvoided)
      a16 == assistanceRule(a0, functionalAnswers)
      riskScore ==
        a1.riskScore + a2.riskScore + a3.riskScore + a4.riskScore + a5.riskScore
          + a6.riskScore + a7.riskScore + a8.riskScore + a9.riskScore + a10.riskScore
          + a11.riskScore + a12.riskScore + a13.riskScore + a14.riskScore
          + a15.riskScore + a16.riskScore
  IN [level |-> riskLevelOf(riskScore, redFlags),
      riskScore |-> riskScore,
      riskFactors |->
        a1.riskFactors \o a2.riskFactors \o a3.riskFactors \o a4.riskFactors
          \o a5.riskFactors \o a6.riskFactors \o a7.riskFactors \o a8.riskFactors
          \o a9.riskFactors \o a10.riskFactors \o a11.riskFactors \o a12.riskFactors
          \o a13.riskFactors \o a14.riskFactors \o a15.riskFactors \o a16.riskFactors]

(***************************************************************************)
(* Text generation                                                         *)
(***************************************************************************)
getBodyPartName(partId) ==
  CASE partId = "head" -> "Head"
    [] partId = "neck" -> "Neck"
    [] partId = "shoulder_left" -> "Left Shoulder"
    [] partId = "shoulder_right" -> "Right Shoulder"
    [] partId = "chest" -> "Chest"
    [] partId = "upper_back" -> "Upper Back"
    [] partId = "lower_back" -> "Lower Back"
    [] partId = "arm_left" -> "Left Arm"
    [] partId = "arm_right" -> "Right Arm"
    [] partId = "elbow_left" -> "Left Elbow"
    [] partId = "elbow_right" -> "Right Elbow"
    [] partId = "wrist_left" -> "Left Wrist"
    [] partId = "wrist_right" -> "Right Wrist"
    [] partId = "hand_left" -> "Left Hand"
    [] partId = "hand_right" -> "Right Hand"
    [] partId = "hip_left" -> "Left Hip"
    [] partId = "hip_right" -> "Right Hip"
    [] partId = "thigh_left" -> "Left Thigh"
    [] partId = "thigh_right" -> "Right Thigh"
    [] partId = "knee_left" -> "Left Knee"
    [] partId = "knee_right" -> "Right Knee"
    [] partId = "calf_left" -> "Left Calf"
    [] partId = "calf_right" -> "Right Calf"
    [] partId = "ankle_left" -> "Left Ankle"
    [] partId = "ankle_right" -> "Right Ankle"
    [] partId = "foot_left" -> "Left Foot"
    [] partId = "foot_right" -> "Right Foot"
    [] OTHER -> partId

generateSummary(d) ==
  <<"Primary areas of concern: ">>
    \o join([i \in 1..Len(d.selectedBodyParts.a) |->
               <<getBodyPartName(d.selectedBodyParts.a[i])>>], ", ")

\* String.prototype.includes: pat occurs in cs as a contiguous run.
IsSubstring(pat, cs) ==
  \E k \in 0..(Len(cs) - Len(pat)) : \A j \in 1..Len(pat) : cs[k + j] = pat[j]

\* Variant: the area id is compared with the word as a whole.
someAreaIncludes_exact(selectedAreas, word) ==
  \E i \in 1..Len(selectedAreas.a) : selectedAreas.a[i] = word

\* selectedAreas.some(area => area.includes(word))
someAreaIncludes(selectedAreas, word) ==
  \E i \in 1..Len(selectedAreas.a) : IsSubstring(Chars(word), Chars(selectedAreas.a[i]))

generateRecommendations(d, riskLevel) ==
  (IF riskLevel = "HIGH" THEN <<"Immediate medical evaluation is strongly recommended.">>
   ELSE IF riskLevel = "MEDIUM"
   THEN <<"Schedule a medical evaluation within the next few days.">>
   ELSE <<>>)
  \o <<"Schedule an appointment with a qualified physiotherapist for a comprehensive evaluation.">>
  \o (IF someAreaIncludes(d.selectedBodyParts, "back")
      THEN <<"Consider core strengthening exercises to support your spine.">> ELSE <<>>)
  \o (IF someAreaIncludes(d.selectedBodyParts, "knee")
      THEN <<"Avoid high-impact activities until evaluated by a healthcare professional.">>
      ELSE <<>>)
  \o (IF someAreaIncludes(d.selectedBodyParts, "shoulder")
      THEN <<"Avoid overhead activities that may aggravate your shoulder symptoms.">>
      ELSE <<>>)
  \o (IF someAreaIncludes(d.selectedBodyParts, "neck")
      THEN <<"Pay attention to posture and ergonomics in daily activities.">> ELSE <<>>)

generateSelfCareTips(d) ==
  <<"Apply ice for acute pain (first 48-72 hours)",
    "Apply heat for chronic pain or stiffness",
    "Maintain gentle movement within pain-free range",
    "Practice good posture throughout the day">>
  \o (IF someAreaIncludes(d.selectedBodyParts, "back")
      THEN <<"Use proper lifting techniques (bend at knees, not waist)",
             "Consider using a lumbar support pillow when sitting">> ELSE <<>>)
  \o (IF someAreaIncludes(d.selectedBodyParts, "knee")
      THEN <<"Elevate your leg when resting",
             "Avoid prolonged sitting or standing in one position">> ELSE <<>>)
  \o (IF someAreaIncludes(d.selectedBodyParts, "shoulder")
      THEN <<"Sleep with a pillow supporting your arm",
             "Avoid sleeping on the affected shoulder">> ELSE <<>>)

\* Variant: the HIGH lead line is given for red flags only.
generateMedicalAttention_byFlags(riskLevel, redFlags) ==
  (IF Len(redFlags) > 0
   THEN <<"Seek immediate medical attention due to the presence of red flags or concerning symptoms.">>
   ELSE IF riskLevel = "MEDIUM"
   THEN <<"Monitor symptoms closely and seek medical attention if they worsen.">>
   ELSE <<>>)
  \o <<"Severe or worsening pain",
       "Numbness, tingling, or weakness in limbs",
       "Loss of bowel or bladder control",
       "Fever with back pain",
       "Pain that wakes you at night",
       "Inability to bear weight on affected area">>

generateMedicalAttention(riskLevel, redFlags) ==
  (IF riskLevel = "HIGH"
   THEN <<"Seek immediate medical attention due to the presence of red flags or concerning symptoms.">>
   ELSE IF riskLevel = "MEDIUM"
   THEN <<"Monitor symptoms closely and seek medical attention if they worsen.">>
   ELSE <<>>)
  \o <<"Severe or worsening pain",
       "Numbness, tingling, or weakness in limbs",
       "Loss of bowel or bladder control",
       "Fever with back pain",
       "Pain that wakes you at night",
       "Inability to bear weight on affected area">>

(***************************************************************************)
(* processAssessmentData: the outcome of one call, a returned record or a  *)
(* raised TypeError.                                                       *)
(***************************************************************************)
NoResult == [status |-> "none"]
Thrown == [status |-> "thrown"]

processAssessmentData(d) ==
  IF checkRedFlagsThrows(d) \/ assessRiskLevelThrows(d) THEN Thrown
  ELSE LET redFlags == checkRedFlags(d)
           riskAssessment == assessRiskLevel(d)
       IN [status |-> "returned",
           riskLevel |-> riskAssessment.level,
           riskScore |-> riskAssessment.riskScore,
           riskFactors |-> riskAssessment.riskFactors,
           summary |-> generateSummary(d),
           recommendations |-> generateRecommendations(d, riskAssessment.level),
           selfCareTips |-> generateSelfCareTips(d),
           medicalAttention |-> generateMedicalAttention(riskAssessment.level, redFlags)]

(***************************************************************************)
(* The request body handed to the scorer: how an answer set is put         *)
(* together, one answer at a time.                                         *)
(***************************************************************************)
BodyPartIds ==
  {"lower_back", "neck", "head", "shoulder_left", "knee_left", "chest",
   "elbow_left", "wrist_left"}

YesNoQuestions ==
  {<<"screening_questions", redFlagQuestions[i]>> : i \in 1..Len(redFlagQuestions)}
    \cup {<<"screening_questions", "accident_cause">>,
          <<"functional_assessment", "assistance_needed">>,
          <<"medical_history", "previous_injuries">>,
          <<"medical_history", "medications">>}

SelectQuestions ==
  {<<"symptom_onset", "duration">>, <<"functional_assessment", "work_impact">>,
   <<"functional_assessment", "sleep_impact">>, <<"demographics", "age">>,
   <<"demographics", "activity_level">>}

MultiQuestions ==
  {<<"symptom_onset", "pain_pattern">>, <<"symptom_onset", "pain_type">>,
   <<"functional_assessment", "movement_patterns">>,
   <<"functional_assessment", "activities_avoided">>,
   <<"medical_history", "surgery_history">>,
   <<"medical_history", "chronic_conditions">>}

ScalarQuestions == YesNoQuestions \cup SelectQuestions \cup {<<"symptom_onset", "pain_level">>}

\* Values of the 0-10 scale on the bucket boundaries and below them, and one
\* value outside the scale on either side.
PainLevels == {0 - 1, 0, 2, 3, 5, 7, 8, 9, 11}

\* The values a caller may send for a scalar question: the catalog values and
\* some that are not in the catalog.
AnswerValues(q) ==
  IF q \in YesNoQuestions THEN {Str("yes"), Str("no")}
  ELSE IF q[2] = "pain_level"
  THEN {Num(n) : n \in PainLevels} \cup {Str("8"), Str("severe")}
  ELSE IF q[2] = "duration"
  THEN {Str("More than 6 months"), Str("3-6 months"), Str("1-3 months"), Str("1-4 weeks"),
        Str("2 months")}
  ELSE IF q[2] = "work_impact"
  THEN {Str("Unable to work/perform activities"), Str("Severely"), Str("Moderately"),
        Str("Slightly"), Str("Not at all")}
  ELSE IF q[2] = "sleep_impact"
  THEN {Str("Unable to sleep due to symptoms"), Str("Frequent sleep disturbance"),
        Str("Occasional sleep disturbance"), Str("No sleep problems")}
  ELSE IF q[2] = "age"
  THEN {Str("70+ years"), Str("60 - 69 years"), Str("50 - 59 years")}
  ELSE {Str("Extremely active (very hard exercise, physical job)"),
        Str("Sedentary (little or no exercise)")}

Options(q) ==
  IF q[2] = "pain_pattern"
  THEN {"Constant", "At night", "When moving", "In the morning", "After activity"}
  ELSE IF q[2] = "pain_type"
  THEN {"Sharp", "Burning", "Tingling", "Numbness", "Weakness"}
  ELSE IF q[2] = "movement_patterns"
  THEN {"Lifting objects", "Reaching overhead", "Bending forward", "Bending backward",
        "Twisting/rotating", "Walking", "Climbing stairs"}
  ELSE IF q[2] = "activities_avoided"
  THEN {"Exercise/sports", "Work activities"}
  ELSE IF q[2] = "surgery_history"
  THEN {"None", "Knee surgery"}
  ELSE {"None", "Diabetes"}

\* The answer to question q of answer set d (undefined when its section is absent).
AnswerOf(d, q) == SectionOf(d, q[1])[q[2]]

\* d with answers[q[1]][q[2]] = v, creating the section when it is absent.
WithAnswer(d, q, v) ==
  [d EXCEPT !.answers = Obj([@.o EXCEPT ![q[1]] = Obj([SectionOf(d, q[1]) EXCEPT ![q[2]] = v])])]

\* d with option x pushed onto the multi-select answer q.
WithOption(d, q, x) == WithAnswer(d, q, Arr(Append(OrEmptyArray(AnswerOf(d, q)).a, x)))

\* d with body part a pushed onto selectedBodyParts.
WithBodyPart(d, a) == [d EXCEPT !.selectedBodyParts = Arr(Append(@.a, a))]

\* Scenario of the specification: lower back, pain level 8, more than 6 months.
LowerBackScenario ==
  WithAnswer(WithAnswer(WithBodyPart(EmptyData, "lower_back"),
                        <<"symptom_onset", "pain_level">>, Num(8)),
             <<"symptom_onset", "duration">>, Str("More than 6 months"))

\* One activation of processAssessmentData: the answer set object it works on
\* (and a copy of it as the caller passed it), the locals redFlags, riskScore
\* and riskFactors, the step it is at, and what it returned.
NoCall ==
  [data |-> EmptyData, given |-> EmptyData, redFlags |-> <<>>, riskScore |-> 0,
   riskFactors |-> <<>>, at |-> 0, returned |-> NoResult]

MaxCallers == 2
Callers == 1..MaxCallers

NoCalls == [c \in Callers |-> NoCall]

\* The file-backed server (src/src/index.ts) before any request: the clock
\* Date.now() reads, the files of the results directory, the submissions that
\* were answered with success, and the latest response.
NoReply == [kind |-> "none", status |-> 0]

NoFileServer == [now |-> 0, files |-> {}, accepted |-> <<>>, reply |-> NoReply]

\* The browser wizard (PhysioAssessmentApp) and the React flow before the
\* page is loaded.
NoWizard ==
  [build |-> "none", flowLength |-> 0, enableBackNavigation |-> FALSE,
   currentStep |-> 0, selectedBodyParts |-> <<>>, answered |-> {}, gender |-> FALSE,
   prevDisabled |-> TRUE, nextDisabled |-> TRUE, navHidden |-> FALSE, page |-> "step",
   submitted |-> 0, riskAssessment |-> NoResult, event |-> <<"none">>]

\* The assessment table and the analytics table behind the database routes,
\* and the latest response.
NoDatabase == [now |-> 0, assessments |-> {}, analytics |-> <<>>, reply |-> NoReply]

Init ==
  /\ data = EmptyData
  /\ result = NoResult
  /\ pc = "input"
  /\ filled = 0
  /\ calls = NoCalls
  /\ fileServer = NoFileServer
  /\ wizard = NoWizard
  /\ database = NoDatabase

Filling == pc = "input" /\ filled < MaxAnswers

SelectBodyPart(a) ==
  /\ Filling
  /\ data.selectedBodyParts.t = "array"
  /\ ~Includes(data.selectedBodyParts, a)
  /\ data' = WithBodyPart(data, a)
  /\ filled' = filled + 1
  /\ UNCHANGED <<result, pc, calls, fileServer, wizard, database>>

AnswerQuestion(q, v) ==
  /\ Filling
  /\ data.answers.t = "object"
  /\ AnswerOf(data, q) = Undefined
  /\ data' = WithAnswer(data, q, v)
  /\ filled' = filled + 1
  /\ UNCHANGED <<result, pc, calls, fileServer, wizard, database>>

ChooseOption(q, x) ==
  /\ Filling
  /\ data.answers.t = "object"
  /\ AnswerOf(data, q).t \in {"undefined", "array"}
  /\ ~Includes(OrEmptyArray(AnswerOf(data, q)), x)
  /\ data' = WithOption(data, q, x)
  /\ filled' = filled + 1
  /\ UNCHANGED <<result, pc, calls, fileServer, wizard, database>>

\* The request body of the documented scenario, sent as it is.
AssembleScenario ==
  /\ pc = "input"
  /\ data = EmptyData
  /\ data' = LowerBackScenario
  /\ filled' = MaxAnswers
  /\ UNCHANGED <<result, pc, calls, fileServer, wizard, database>>

\* A request body without selectedBodyParts.
OmitBodyParts ==
  /\ Filling
  /\ data.selectedBodyParts = Arr(<<>>)
  /\ data' = [data EXCEPT !.selectedBodyParts = Undefined]
  /\ filled' = filled + 1
  /\ UNCHANGED <<result, pc, calls, fileServer, wizard, database>>

\* A request body without answers.
OmitAnswers ==
  /\ Filling
  /\ data.answers = EmptyAnswers
  /\ data' = [data EXCEPT !.answers = Undefined]
  /\ filled' = filled + 1
  /\ UNCHANGED <<result, pc, calls, fileServer, wizard, database>>

\* A request body in which a multi-select answer is a number instead of a list.
AnswerMalformed(q) ==
  /\ Filling
  /\ data.answers.t = "object"
  /\ AnswerOf(data, q) = Undefined
  /\ data' = WithAnswer(data, q, Num(7))
  /\ filled' = filled + 1
  /\ UNCHANGED <<result, pc, calls, fileServer, wizard, database>>

\* The submit handler calls processAssessmentData(req.body).
Submit ==
  /\ pc = "input"
  /\ result' = processAssessmentData(data)
  /\ pc' = "done"
  /\ UNCHANGED <<data, filled, calls, fileServer, wizard, database>>

Next ==
  \/ \E a \in BodyPartIds : SelectBodyPart(a)
  \/ \E q \in ScalarQuestions : \E v \in AnswerValues(q) : AnswerQuestion(q, v)
  \/ \E q \in MultiQuestions : \E x \in Options(q) : ChooseOption(q, x)
  \/ AssembleScenario
  \/ OmitBodyParts
  \/ OmitAnswers
  \/ \E q \in MultiQuestions : AnswerMalformed(q)
  \/ Submit

Spec == Init /\ [][Next]_vars

(***************************************************************************)
(* Request bodies that arrive with several answers already in place, each  *)
(* with room for MaxExtra further answers before it is submitted.          *)
(***************************************************************************)
MaxExtra == 1

\* Tingling and numbness, no body area yet.
NeuroCase ==
  WithOption(WithOption(EmptyData, <<"symptom_onset", "pain_type">>, "Tingling"),
             <<"symptom_onset", "pain_type">>, "Numbness")

\* Two spine areas.
TwoSpineCase == WithBodyPart(WithBodyPart(EmptyData, "lower_back"), "neck")

\* Assistance needed, no body area yet.
AssistCase == WithAnswer(EmptyData, <<"functional_assessment", "assistance_needed">>, Str("yes"))

\* Every rule but the pain-level rule fires: all red flags, the heaviest
\* value of every select, every scoring option, a spine and a joint area.
WorstCaseButPain ==
  [selectedBodyParts |-> Arr(<<"lower_back", "knee_left">>),
   answers |-> Obj(
     [screening_questions |->
        Obj([f \in SectionFields("screening_questions") |-> Str("yes")]),
      symptom_onset |->
        Obj([pain_level |-> Undefined,
             duration |-> Str("More than 6 months"),
             pain_pattern |-> Arr(<<"Constant", "At night", "When moving",
                                    "In the morning", "After activity">>),
             pain_type |-> Arr(<<"Sharp", "Burning", "Tingling", "Numbness", "Weakness">>)]),
      functional_assessment |->
        Obj([work_impact |-> Str("Unable to work/perform activities"),
             sleep_impact |-> Str("Unable to sleep due to symptoms"),
             movement_patterns |-> Arr(<<"Lifting objects", "Reaching overhead",
                                         "Bending forward", "Bending backward",
                                         "Twisting/rotating", "Walking", "Climbing stairs">>),
             activities_avoided |-> Arr(<<"Exercise/sports", "Work activities">>),
             assistance_needed |-> Str("yes")]),
      medical_history |->
        Obj([previous_injuries |-> Str("yes"),
             surgery_history |-> Arr(<<"Knee surgery">>),
             chronic_conditions |-> Arr(<<"Diabetes">>),
             medications |-> Str("yes")]),
      demographics |->
        Obj([age |-> Str("70+ years"),
             activity_level |-> Str("Extremely active (very hard exercise, physical job)")])])]

Cases == {EmptyData, NeuroCase, TwoSpineCase, AssistCase, WorstCaseButPain}

\* Values of a select question that are no catalog string: another wording,
\* and a catalog string in another case.
OffCatalog(q) ==
  IF q[2] = "duration" THEN {Str("2 months"), Str("more than 6 months")}
  ELSE IF q[2] = "work_impact" THEN {Str("Not at all"), Str("severely")}
  ELSE IF q[2] = "sleep_impact" THEN {Str("No sleep problems"), Str("FREQUENT SLEEP DISTURBANCE")}
  ELSE IF q[2] = "age" THEN {Str("50 - 59 years"), Str("70+ Years")}
  ELSE {Str("Sedentary (little or no exercise)"),
        Str("extremely active (very hard exercise, physical job)")}

InitCases ==
  /\ data \in Cases
  /\ result = NoResult
  /\ pc = "input"
  /\ filled = MaxAnswers - MaxExtra
  /\ calls = NoCalls
  /\ fileServer = NoFileServer
  /\ wizard = NoWizard
  /\ database = NoDatabase

\* A select question answered with a value outside the catalog.
AnswerOffCatalog(q, v) ==
  /\ Filling
  /\ data.answers.t = "object"
  /\ AnswerOf(data, q) = Undefined
  /\ data' = WithAnswer(data, q, v)
  /\ filled' = filled + 1
  /\ UNCHANGED <<result, pc, calls, fileServer, wizard, database>>

NextCases ==
  \/ \E a \in BodyPartIds : SelectBodyPart(a)
  \/ \E q \in ScalarQuestions : \E v \in AnswerValues(q) : AnswerQuestion(q, v)
  \/ \E q \in SelectQuestions : \E v \in OffCatalog(q) : AnswerOffCatalog(q, v)
  \/ \E q \in MultiQuestions : \E x \in Options(q) : ChooseOption(q, x)
  \/ \E q \in MultiQuestions : AnswerMalformed(q)
  \/ Submit

SpecCases == InitCases /\ [][NextCases]_vars

(***************************************************************************)
(* Several callers, each calling processAssessmentData on an answer set of *)
(* its own; the calls advance one statement group at a time, in any        *)
(* interleaving.                                                           *)
(***************************************************************************)
WorstCase == WithAnswer(WorstCaseButPain, <<"symptom_onset", "pain_level">>, Num(9))

\* The answer sets the callers pass.
CallInputs == {LowerBackScenario, WithBodyPart(AssistCase, "knee_left"), WorstCase}

\* Steps of a call: 0 not called, 1 entered, 2..17 before rule at - 1,
\* 18 before the return, 19 returned.
LastRule == 16
Returning == LastRule + 2
Finished == LastRule + 3

\* Variant: riskScore and riskFactors are module-level bindings, those of the
\* first caller.
localsOf_module(cs, c) == [riskScore |-> cs[1].riskScore, riskFactors |-> cs[1].riskFactors]

\* `let riskScore = 0; const riskFactors = []` are bindings of the activation.
localsOf(cs, c) == [riskScore |-> cs[c].riskScore, riskFactors |-> cs[c].riskFactors]

\* The k-th rule group of assessRiskLevel applied to the accumulated locals.
ruleStep(k, d, redFlags, acc) ==
  LET symptomAnswers == SectionOf(d, "symptom_onset")
      functionalAnswers == SectionOf(d, "functional_assessment")
      painPattern == OrEmptyArray(symptomAnswers["pain_pattern"])
      painType == OrEmptyArray(symptomAnswers["pain_type"])
  IN CASE k = 1 -> redFlagRule(acc, redFlags)
       [] k = 2 -> painLevelRule(acc, parseIntOrZero(symptomAnswers["pain_level"]))
       [] k = 3 -> durationRule(acc, symptomAnswers["duration"])
       [] k = 4 -> workImpactRule(acc, functionalAnswers["work_impact"])
       [] k = 5 -> sleepImpactRule(acc, functionalAnswers["sleep_impact"])
       [] k = 6 -> painPatternRules(acc, painPattern)
       [] k = 7 -> painTypeRules(acc, painType)
       [] k = 8 -> medicalHistoryRules(acc, SectionOf(d, "medical_history"))
       [] k = 9 -> accidentRule(acc, SectionOf(d, "screening_questions"))
       [] k = 10 -> bodyAreaRules(acc, d.selectedBodyParts)
       [] k = 11 -> spineRules(acc, d.selectedBodyParts, painType, painPattern,
                               functionalAnswers)
       [] k = 12 -> jointRules(acc, d.selectedBodyParts, painType, functionalAnswers)
       [] k = 13 -> demographicsRules(acc, SectionOf(d, "demographics"))
       [] k = 14 -> movementRules(acc, OrEmptyArray(functionalAnswers["movement_patterns"]))
       [] k = 15 -> avoidedRules(acc, OrEmptyArray(functionalAnswers["activities_avoided"]))
       [] k = 16 -> assistanceRule(acc, functionalAnswers)

InitCalls ==
  /\ data = EmptyData
  /\ result = NoResult
  /\ pc = "input"
  /\ filled = 0
  /\ calls = NoCalls
  /\ fileServer = NoFileServer
  /\ wizard = NoWizard
  /\ database = NoDatabase

\* Caller c calls processAssessmentData(d); a caller calls again after a return.
EnterCall(c, d) ==
  /\ calls[c].at \in {0, Finished}
  /\ calls' = [calls EXCEPT ![c] = [NoCall EXCEPT !.data = d, !.given = d, !.at = 1]]
  /\ UNCHANGED <<data, result, pc, filled, fileServer, wizard, database>>

\* const redFlags = checkRedFlags(data); let riskScore = 0; const riskFactors = []
CollectRedFlags(c) ==
  /\ calls[c].at = 1
  /\ calls' = [calls EXCEPT ![c].redFlags = checkRedFlags(calls[c].data),
                            ![c].riskScore = 0,
                            ![c].riskFactors = <<>>,
                            ![c].at = 2]
  /\ UNCHANGED <<data, result, pc, filled, fileServer, wizard, database>>

\* The next rule group adds to riskScore and pushes onto riskFactors.
ApplyRule(c) ==
  /\ calls[c].at \in 2..(LastRule + 1)
  /\ LET acc == ruleStep(calls[c].at - 1, calls[c].data, calls[c].redFlags,
                         localsOf(calls, c))
     IN calls' = [calls EXCEPT ![c].riskScore = acc.riskScore,
                               ![c].riskFactors = acc.riskFactors,
                               ![c].at = @ + 1]
  /\ UNCHANGED <<data, result, pc, filled, fileServer, wizard, database>>

\* The level is determined, the texts are generated, the result is returned.
ReturnResult(c) ==
  /\ calls[c].at = Returning
  /\ LET d == calls[c].data
         acc == localsOf(calls, c)
         level == riskLevelOf(acc.riskScore, calls[c].redFlags)
     IN calls' = [calls EXCEPT
          ![c].returned =
            [status |-> "returned",
             riskLevel |-> level,
             riskScore |-> acc.riskScore,
             riskFactors |-> acc.riskFactors,
             summary |-> generateSummary(d),
             recommendations |-> generateRecommendations(d, level),
             selfCareTips |-> generateSelfCareTips(d),
             medicalAttention |-> generateMedicalAttention(level, calls[c].redFlags)],
          ![c].at = Finished]
  /\ UNCHANGED <<data, result, pc, filled, fileServer, wizard, database>>

NextCalls ==
  \/ \E c \in Callers : \E d \in CallInputs : EnterCall(c, d)
  \/ \E c \in Callers : CollectRedFlags(c)
  \/ \E c \in Callers : ApplyRule(c)
  \/ \E c \in Callers : ReturnResult(c)

SpecCalls == InitCalls /\ [][NextCalls]_vars

(***************************************************************************)
(* The file-backed server (src/src/index.ts): POST /api/assessment/submit  *)
(* writes one result file per request, GET /api/assessment/results/:id     *)
(* and GET /api/assessment/analytics read the files back.  An object is a  *)
(* function from its property names to values.  Every clock value of the   *)
(* model lies on the same day, so the date in a file name is fixed.        *)
(***************************************************************************)
MaxSubmissions == 2

\* {}
EmptyObject == [k \in {} |-> Undefined]

\* Variant: a property that is already there is kept.
Spread_keepFirst(a, b) ==
  [k \in DOMAIN a \cup DOMAIN b |-> IF k \in DOMAIN a THEN a[k] ELSE b[k]]

\* { ...a, ...b }: a property of b replaces the property of the same name of a.
Spread(a, b) ==
  [k \in DOMAIN a \cup DOMAIN b |-> IF k \in DOMAIN b THEN b[k] ELSE a[k]]

\* o.k (undefined when o has no property k)
Prop(o, k) == IF k \in DOMAIN o THEN o[k] ELSE Undefined

\* Date.now().toString()
IdOf(ms) == [t |-> "string", s |-> NatChars(ms)]

\* data.answers?.<sec> || {}
index_section(body, sec) ==
  LET answers == Prop(body, "answers")
      s == IF answers.t = "object" THEN answers.o[sec] ELSE Undefined
  IN IF s.t = "object" THEN s.o ELSE EmptySection(sec)

index_checkRedFlags(body) == redFlagsFrom(index_section(body, "screening_questions"), 1)

index_generateSummary(body) ==
  LET selectedBodyParts == Prop(body, "selectedBodyParts")
      symptomAnswers == index_section(body, "symptom_onset")
      functionalAnswers == index_section(body, "functional_assessment")
      kept(v) == IF Truthy(v) THEN v ELSE Undefined
  IN [affectedAreas |-> IF Truthy(selectedBodyParts)
                        THEN Num(Len(selectedBodyParts.a)) ELSE Undefined,
      primaryAreas |-> kept(selectedBodyParts),
      averagePainLevel |-> IF Truthy(symptomAnswers["pain_level"])
                           THEN parseInt(symptomAnswers["pain_level"]) ELSE NaN,
      symptomDuration |-> kept(symptomAnswers["duration"]),
      workImpact |-> kept(functionalAnswers["work_impact"])]

\* Variant: a risk level that came with the request is left as it is.
index_processAssessmentData_keepClient(body, processedAt) ==
  LET redFlags == index_checkRedFlags(body)
  IN Spread_keepFirst(body,
            [riskLevel |-> IF Len(redFlags) > 0 THEN Str("HIGH") ELSE Str("LOW"),
             redFlags |-> Arr(redFlags),
             summary |-> index_generateSummary(body),
             processedAt |-> Num(processedAt)])

index_processAssessmentData(body, processedAt) ==
  LET redFlags == index_checkRedFlags(body)
  IN Spread(body,
            [riskLevel |-> IF Len(redFlags) > 0 THEN Str("HIGH") ELSE Str("LOW"),
             redFlags |-> Arr(redFlags),
             summary |-> index_generateSummary(body),
             processedAt |-> Num(processedAt)])

\* `assessment-${timestamp.split('T')[0]}-${Date.now()}.json`
filename(ms) == <<"assessment-", "1970-01-01", "-">> \o NatChars(ms) \o <<".json">>

\* Variant: a file that exists is not written again.
writeFileSync_keep(files, name, content) ==
  IF \E f \in files : f.name = name THEN files
  ELSE files \cup {[name |-> name, content |-> content]}

\* fs.writeFileSync(path, content): a file of that name is replaced.
writeFileSync(files, name, content) ==
  {f \in files : f.name # name} \cup {[name |-> name, content |-> content]}

\* Variant: the level of a result is not looked at.
riskLevelsOf_highOnly(files) ==
  [HIGH |-> Cardinality({f \in files : Prop(f.content, "riskLevel") = Str("HIGH")}),
   LOW |-> 0]

\* files.forEach(a => { if (a.riskLevel) analytics.riskLevels[a.riskLevel]++ })
riskLevelsOf(files) ==
  [k \in {"HIGH", "LOW"} |->
     Cardinality({f \in files : LET level == Prop(f.content, "riskLevel")
                                IN Truthy(level) /\ level = Str(k)})]

RECURSIVE SumOver(_, _)
SumOver(S, g) ==
  IF S = {} THEN 0 ELSE LET x == CHOOSE y \in S : TRUE IN g[x] + SumOver(S \ {x}, g)

\* The body of the response of GET /api/assessment/analytics; averagePainLevel
\* in tenths, recentAssessments without its order.
analyticsOf(files) ==
  LET painOf(f) == f.content["summary"].averagePainLevel
      withPain == {f \in files : ~painOf(f).nan /\ painOf(f).n # 0}
      totalPainLevel == SumOver(withPain, [f \in withPain |-> painOf(f).n])
      painLevelCount == Cardinality(withPain)
      areasOf(f) == LET p == Prop(f.content, "selectedBodyParts")
                    IN IF Truthy(p) THEN p.a ELSE <<>>
      occurrences(f, area) == Cardinality({i \in 1..Len(areasOf(f)) : areasOf(f)[i] = area})
      areas == UNION {{areasOf(f)[i] : i \in 1..Len(areasOf(f))} : f \in files}
  IN [totalAssessments |-> Cardinality(files),
      riskLevels |-> riskLevelsOf(files),
      commonAreas |-> [area \in areas |->
                         SumOver(files, [f \in files |-> occurrences(f, area)])],
      averagePainLevel |-> IF painLevelCount > 0
                           THEN (2 * 10 * totalPainLevel + painLevelCount)
                                  \div (2 * painLevelCount)
                           ELSE 0,
      recentAssessments |->
        {[id |-> f.content["id"], submittedAt |-> f.content["submittedAt"],
          riskLevel |-> f.content["riskLevel"], affectedAreas |-> Len(areasOf(f))]
           : f \in files}]

\* Request bodies: no answers at all, a screening answer that is a red flag,
\* and a body without the answers property; some as they are, some with a
\* risk level or an id of their own.
FeverCase ==
  WithAnswer(WithBodyPart(EmptyData, "lower_back"),
             <<"screening_questions", "fever">>, Str("yes"))

NoAnswersCase == [WithBodyPart(EmptyData, "neck") EXCEPT !.answers = Undefined]

ClaimsHigh == [k \in {"riskLevel"} |-> Str("HIGH")]

ClaimsMedium == [k \in {"riskLevel", "id"} |-> IF k = "id" THEN IdOf(0) ELSE Str("MEDIUM")]

BodyOf(d, extra) ==
  Spread([k \in {k \in {"selectedBodyParts", "answers"} : d[k] # Undefined} |-> d[k]], extra)

FileBodies ==
  {BodyOf(EmptyData, EmptyObject), BodyOf(EmptyData, ClaimsHigh),
   BodyOf(FeverCase, EmptyObject), BodyOf(FeverCase, ClaimsMedium),
   BodyOf(NoAnswersCase, ClaimsMedium)}

InitFiles ==
  /\ data = EmptyData
  /\ result = NoResult
  /\ pc = "input"
  /\ filled = 0
  /\ calls = NoCalls
  /\ fileServer = NoFileServer
  /\ wizard = NoWizard
  /\ database = NoDatabase

\* POST /api/assessment/submit.  The request arrives gap milliseconds after
\* the previous one was answered; the clock advances by tick milliseconds
\* between the Date.now() of the file name and the one of the id.
SubmitAssessment(assessmentData, gap, tick) ==
  LET timestamp == fileServer.now + gap
      enhancedData == index_processAssessmentData(assessmentData, timestamp + tick)
      resultData == Spread(enhancedData,
                           [submittedAt |-> Num(timestamp),
                            id |-> IdOf(timestamp + tick),
                            version |-> Str("2.0.0")])
  IN /\ Len(fileServer.accepted) < MaxSubmissions
     /\ fileServer' =
          [now |-> timestamp + tick,
           files |-> writeFileSync(fileServer.files, filename(timestamp), resultData),
           accepted |-> Append(fileServer.accepted,
                               [body |-> assessmentData, file |-> filename(timestamp),
                                stored |-> resultData]),
           reply |-> [kind |-> "submit", status |-> 200, id |-> resultData["id"],
                      riskLevel |-> enhancedData["riskLevel"]]]
     /\ UNCHANGED <<data, result, pc, filled, calls, wizard, database>>

\* POST /api/assessment/submit when writing the file raises: the catch block
\* answers 500 and nothing is stored.
SubmitFails ==
  /\ fileServer.reply.status # 500
  /\ fileServer' = [fileServer EXCEPT !.reply = [kind |-> "submit", status |-> 500]]
  /\ UNCHANGED <<data, result, pc, filled, calls, wizard, database>>

\* The ids a client may ask for: those it was given, and one it was not.
KnownIds == {fileServer.accepted[i].stored["id"] : i \in 1..Len(fileServer.accepted)}

\* GET /api/assessment/results/:id: the first file, in the order of the
\* directory listing, whose data.id is the id; which one that is when several
\* match depends on the file system.
GetResult(id) ==
  LET matching == {f \in fileServer.files : f.content["id"] = id}
  IN /\ IF matching = {}
        THEN fileServer' = [fileServer EXCEPT !.reply = [kind |-> "result", status |-> 404, id |-> id]]
        ELSE \E f \in matching :
               fileServer' = [fileServer EXCEPT
                                !.reply = [kind |-> "result", status |-> 200, id |-> id,
                                           data |-> f.content]]
     /\ UNCHANGED <<data, result, pc, filled, calls, wizard, database>>

\* GET /api/assessment/analytics
GetAnalytics ==
  /\ fileServer' = [fileServer EXCEPT
                      !.reply = [kind |-> "analytics", status |-> 200,
                                 analytics |-> analyticsOf(fileServer.files)]]
  /\ UNCHANGED <<data, result, pc, filled, calls, wizard, database>>

NextFiles ==
  \/ \E b \in FileBodies : \E gap \in {0, 1} : \E tick \in {0, 1} : SubmitAssessment(b, gap, tick)
  \/ SubmitFails
  \/ \E id \in KnownIds \cup {IdOf(0)} : GetResult(id)
  \/ GetAnalytics

SpecFiles == InitFiles /\ [][NextFiles]_vars

(***************************************************************************)
(* The scorer of the browser application (PhysioAssessmentApp.assessRiskLevel *)
(* in src/unnamed/part_001), run on the answer set the server scorer gets. *)
(***************************************************************************)
\* Variant: the lower pain bucket starts at 5 and weighs as the upper one.
PhysioAssessmentApp_painRule_fromFive(acc, painLevel) ==
  LET f(name) == <<name, ToString(painLevel), "/10)">>
  IN IF painLevel >= 8
     THEN [riskScore |-> acc.riskScore + 8,
           riskFactors |-> Append(acc.riskFactors, f("Severe pain (level "))]
     ELSE IF painLevel >= 5
     THEN [riskScore |-> acc.riskScore + 8,
           riskFactors |-> Append(acc.riskFactors, f("Moderate to severe pain (level "))]
     ELSE acc

PhysioAssessmentApp_painRule(acc, painLevel) ==
  LET f(name) == <<name, ToString(painLevel), "/10)">>
  IN IF painLevel >= 8
     THEN [riskScore |-> acc.riskScore + 8,
           riskFactors |-> Append(acc.riskFactors, f("Severe pain (level "))]
     ELSE IF painLevel >= 6
     THEN [riskScore |-> acc.riskScore + 4,
           riskFactors |-> Append(acc.riskFactors, f("Moderate to severe pain (level "))]
     ELSE acc

PhysioAssessmentApp_answerRules(acc, symptomAnswers, functionalAnswers) ==
  LET duration == symptomAnswers["duration"]
      workImpact == functionalAnswers["work_impact"]
      sleepImpact == functionalAnswers["sleep_impact"]
      painPattern == OrEmptyArray(symptomAnswers["pain_pattern"])
      a1 == IF StrictEq(duration, "More than 6 months")
            THEN Add(acc, 3, "Chronic symptoms (>6 months)")
            ELSE AddIf(acc, StrictEq(duration, "3-6 months"), 2,
                       "Prolonged symptoms (3-6 months)")
      a2 == IF StrictEq(workImpact, "Unable to work/perform activities")
            THEN Add(a1, 6, "Severe functional limitation")
            ELSE AddIf(a1, StrictEq(workImpact, "Severely"), 4, "Significant functional impact")
      a3 == IF StrictEq(sleepImpact, "Unable to sleep due to symptoms")
            THEN Add(a2, 5, "Severe sleep disturbance")
            ELSE AddIf(a2, StrictEq(sleepImpact, "Frequent sleep disturbance"), 3,
                       "Frequent sleep problems")
      a4 == AddIf(a3, Includes(painPattern, "Constant"), 4, "Constant pain pattern")
  IN AddIf(a4, Includes(painPattern, "At night"), 3, "Night pain")

PhysioAssessmentApp_areasRule(acc, bodyAreas) ==
  LET f == <<"Multiple affected areas (", ToString(bodyAreas), " areas)">>
  IN IF bodyAreas >= 4
     THEN [riskScore |-> acc.riskScore + 3, riskFactors |-> Append(acc.riskFactors, f)]
     ELSE IF bodyAreas >= 2
     THEN [riskScore |-> acc.riskScore + 1, riskFactors |-> Append(acc.riskFactors, f)]
     ELSE acc

\* The answer sets on which the browser scorer raises a TypeError.
PhysioAssessmentApp_assessRiskLevelThrows(d) ==
  \/ d.answers.t = "undefined"
  \/ NoIncludes(OrEmptyArray(SectionOf(d, "symptom_onset")["pain_pattern"]))
  \/ d.selectedBodyParts.t = "undefined"

PhysioAssessmentApp_assessRiskLevel(d) ==
  IF PhysioAssessmentApp_assessRiskLevelThrows(d) THEN Thrown
  ELSE LET redFlags == checkRedFlags(d)
           symptomAnswers == SectionOf(d, "symptom_onset")
           functionalAnswers == SectionOf(d, "functional_assessment")
           a1 == redFlagRule_tenEach([riskScore |-> 0, riskFactors |-> <<>>], redFlags)
           a2 == PhysioAssessmentApp_painRule(a1, parseIntOrZero(symptomAnswers["pain_level"]))
           a3 == PhysioAssessmentApp_answerRules(a2, symptomAnswers, functionalAnswers)
           a4 == PhysioAssessmentApp_areasRule(a3, Len(d.selectedBodyParts.a))
           riskScore == a4.riskScore
           factors == join(a4.riskFactors, ", ")
       IN IF riskScore >= 15 \/ Len(redFlags) > 0
          THEN [status |-> "returned", level |-> "HIGH", riskScore |-> riskScore,
                riskFactors |-> a4.riskFactors,
                assessment |-> <<"HIGH RISK - Multiple concerning factors: ">> \o factors]
          ELSE IF riskScore >= 8
          THEN [status |-> "returned", level |-> "MEDIUM", riskScore |-> riskScore,
                riskFactors |-> a4.riskFactors,
                assessment |-> <<"MEDIUM RISK - Some concerning factors: ">> \o factors]
          ELSE [status |-> "returned", level |-> "LOW", riskScore |-> riskScore,
                riskFactors |-> a4.riskFactors,
                assessment |-> <<"LOW RISK - No immediate concerning factors detected">>]

\* Answer sets over the questions the browser scorer looks at: every
\* combination of a pain level, a duration, a work impact, a sleep impact,
\* pain patterns, a number of areas the server gives no weight, and a red flag.
ScorerCase(pain, duration, work, sleep, pattern, areas, fever) ==
  LET d1 == WithAnswer([EmptyData EXCEPT !.selectedBodyParts = Arr(areas)],
                       <<"symptom_onset", "pain_level">>, pain)
      d2 == WithAnswer(d1, <<"symptom_onset", "duration">>, duration)
      d3 == WithAnswer(d2, <<"functional_assessment", "work_impact">>, work)
      d4 == WithAnswer(d3, <<"functional_assessment", "sleep_impact">>, sleep)
      d5 == WithAnswer(d4, <<"symptom_onset", "pain_pattern">>, pattern)
  IN WithAnswer(d5, <<"screening_questions", "fever">>, fever)

InitScorers ==
  /\ \E pain \in {Undefined, Num(5), Num(6), Num(7), Num(8), Num(9)} :
     \E duration \in {Undefined, Str("More than 6 months"), Str("3-6 months"),
                      Str("1-3 months")} :
     \E work \in {Undefined, Str("Unable to work/perform activities"), Str("Severely"),
                  Str("Moderately")} :
     \E sleep \in {Undefined, Str("Unable to sleep due to symptoms"),
                   Str("Frequent sleep disturbance"), Str("Occasional sleep disturbance")} :
     \E pattern \in {Undefined, Arr(<<"Constant">>), Arr(<<"At night">>),
                     Arr(<<"At night", "Constant">>)} :
     \E areas \in {<<>>, <<"wrist_left">>, <<"wrist_left", "wrist_right">>,
                   <<"wrist_left", "wrist_right", "elbow_left", "elbow_right">>} :
     \E fever \in {Undefined, Str("yes")} :
       data = ScorerCase(pain, duration, work, sleep, pattern, areas, fever)
  /\ result = NoResult
  /\ pc = "input"
  /\ filled = 0
  /\ calls = NoCalls
  /\ fileServer = NoFileServer
  /\ wizard = NoWizard
  /\ database = NoDatabase

\* The same answer set is scored by the server and by the browser.
AssessBoth ==
  /\ pc = "input"
  /\ result' = processAssessmentData(data)
  /\ wizard' = [wizard EXCEPT !.riskAssessment = PhysioAssessmentApp_assessRiskLevel(data)]
  /\ pc' = "done"
  /\ UNCHANGED <<data, filled, calls, fileServer, database>>

NextScorers == AssessBoth

SpecScorers == InitScorers /\ [][NextScorers]_vars

(***************************************************************************)
(* The database routes (src/unnamed/part_002) over AssessmentService       *)
(* (assessmentService.ts 33-120): an assessment is created, then submitted *)
(* under its id.  A row is its id and an object of column values.          *)
(***************************************************************************)
MaxRequests == 3

AssessmentIds == {"a1", "a2"}

\* The request body as the scorer reads it.
DataOf(body) ==
  [selectedBodyParts |-> Prop(body, "selectedBodyParts"), answers |-> Prop(body, "answers")]

\* The object processAssessmentData returns.
ProcessedObject(r) ==
  [riskLevel |-> Str(r.riskLevel), riskScore |-> Num(r.riskScore),
   riskFactors |-> Arr(r.riskFactors), summary |-> [t |-> "string", s |-> r.summary],
   recommendations |-> Arr(r.recommendations), selfCareTips |-> Arr(r.selfCareTips),
   medicalAttention |-> Arr(r.medicalAttention)]

\* AssessmentService.updateAssessment: the data handed to prisma.assessment.update.
updateDataOf(updates, now) ==
  IF Prop(updates, "status") = Str("completed")
  THEN Spread(updates, [completedAt |-> [t |-> "date", ms |-> now]])
  ELSE updates

\* prisma.assessment.update({ where: { id }, data }) on a row that exists.
updated(assessments, id, updateData) ==
  {IF row.id = id THEN [row EXCEPT !.fields = Spread(@, updateData)] ELSE row
     : row \in assessments}

\* Fields a client may send along: a status and results of its own.
ClientResults ==
  [k \in {"status", "riskLevel", "riskScore", "completedAt"} |->
     CASE k = "status" -> Str("abandoned")
       [] k = "riskLevel" -> Str("LOW")
       [] k = "riskScore" -> Num(0)
       [] k = "completedAt" -> [t |-> "date", ms |-> 0]]

SubmitBodies ==
  {BodyOf(d, extra) : d \in {LowerBackScenario, FeverCase, NoAnswersCase},
                      extra \in {EmptyObject, ClientResults}}

InitDatabase ==
  /\ data = EmptyData
  /\ result = NoResult
  /\ pc = "input"
  /\ filled = 0
  /\ calls = NoCalls
  /\ fileServer = NoFileServer
  /\ wizard = NoWizard
  /\ database = NoDatabase

HasRow(id) == \E row \in database.assessments : row.id = id

\* POST /create with the body the React flow sends.
CreateAssessment(id) ==
  /\ database.now < MaxRequests
  /\ ~HasRow(id)
  /\ database' =
       [now |-> database.now + 1,
        assessments |-> database.assessments \cup
          {[id |-> id, fields |-> [selectedBodyParts |-> Arr(<<>>), answers |-> EmptyAnswers]]},
        analytics |-> Append(database.analytics,
                             [assessmentId |-> id, eventType |-> "assessment_started"]),
        reply |-> [kind |-> "create", status |-> 200, success |-> TRUE, id |-> id]]
  /\ UNCHANGED <<data, result, pc, filled, calls, fileServer, wizard>>

\* What POST /:id/submit hands to updateAssessment.
submitUpdates(assessmentData, processedData) ==
  Spread(Spread(assessmentData, ProcessedObject(processedData)), [status |-> Str("completed")])

\* POST /:id/submit: scored, updated, tracked and answered with success.
SubmitCompleted(id, assessmentData) ==
  \E processedData \in {processAssessmentData(DataOf(assessmentData))} :
    /\ database.now < MaxRequests
    /\ processedData.status = "returned"
    /\ HasRow(id)
    /\ \E updateData \in {updateDataOf(submitUpdates(assessmentData, processedData),
                                       database.now + 1)} :
         database' =
           [now |-> database.now + 1,
            assessments |-> updated(database.assessments, id, updateData),
            analytics |-> Append(database.analytics,
              [assessmentId |-> id, eventType |-> "assessment_completed",
               eventData |->
                 [riskLevel |-> processedData.riskLevel,
                  riskScore |-> processedData.riskScore,
                  bodyPartsCount |->
                    IF Prop(assessmentData, "selectedBodyParts").t = "array"
                    THEN Len(Prop(assessmentData, "selectedBodyParts").a) ELSE 0]]),
            reply |-> [kind |-> "submit", status |-> 200, success |-> TRUE, id |-> id,
                       body |-> assessmentData]]
    /\ UNCHANGED <<data, result, pc, filled, calls, fileServer, wizard>>

\* POST /:id/submit when processAssessmentData raises, when there is no row
\* of that id, or when the database refuses the update: the catch block.
SubmitRaises(id, assessmentData) ==
  /\ database' = [database EXCEPT
                    !.reply = [kind |-> "submit", status |-> 500, success |-> FALSE, id |-> id,
                               body |-> assessmentData]]
  /\ UNCHANGED <<data, result, pc, filled, calls, fileServer, wizard>>

\* POST /:id/submit when the row is updated and createAnalyticsEvent raises.
SubmitUntracked(id, assessmentData) ==
  \E processedData \in {processAssessmentData(DataOf(assessmentData))} :
    /\ database.now < MaxRequests
    /\ processedData.status = "returned"
    /\ HasRow(id)
    /\ \E updateData \in {updateDataOf(submitUpdates(assessmentData, processedData),
                                       database.now + 1)} :
         database' =
           [database EXCEPT
              !.now = @ + 1,
              !.assessments = updated(@, id, updateData),
              !.reply = [kind |-> "submit", status |-> 500, success |-> FALSE, id |-> id,
                         body |-> assessmentData]]
    /\ UNCHANGED <<data, result, pc, filled, calls, fileServer, wizard>>

NextDatabase ==
  \/ \E id \in AssessmentIds : CreateAssessment(id)
  \/ \E id \in AssessmentIds : \E b \in SubmitBodies : SubmitCompleted(id, b)
  \/ \E id \in AssessmentIds : \E b \in SubmitBodies : SubmitRaises(id, b)
  \/ \E id \in AssessmentIds : \E b \in SubmitBodies : SubmitUntracked(id, b)

SpecDatabase == InitDatabase /\ [][NextDatabase]_vars

(***************************************************************************)
(* The questionnaire in the browser: PhysioAssessmentApp (build "app" is   *)
(* src/unnamed/part_001, build "public" is src/public/app.js) and the      *)
(* React flow (build "react", src/frontend/src/App.jsx).  The flow starts  *)
(* with the body diagram; every later step has one required question.      *)
(* submitted counts the calls of PhysioAssessmentApp.submitResults since   *)
(* the run began, event is the event handled last.                         *)
(***************************************************************************)
MaxSteps == 3
MaxSubmitted == 2
ReactSteps == 3

WizardParts == {"head", "neck", "lower_back"}

\* Variant: the area is pushed whether it is selected or not.
toggleBodyPart_push(selectedBodyParts, partId) == Append(selectedBodyParts, partId)

\* toggleBodyPart: indexOf, then splice(index, 1) or push.
toggleBodyPart(selectedBodyParts, partId) ==
  LET found == {i \in 1..Len(selectedBodyParts) : selectedBodyParts[i] = partId}
  IN IF found # {}
     THEN LET index == CHOOSE i \in found : \A j \in found : i <= j
          IN SubSeq(selectedBodyParts, 1, index - 1)
               \o SubSeq(selectedBodyParts, index + 1, Len(selectedBodyParts))
     ELSE Append(selectedBodyParts, partId)

\* handlePartClick: includes, then filter or [...selectedBodyParts, partId].
handlePartClick(selectedBodyParts, partId) ==
  IF \E i \in 1..Len(selectedBodyParts) : selectedBodyParts[i] = partId
  THEN SelectSeq(selectedBodyParts, LAMBDA id : id # partId)
  ELSE Append(selectedBodyParts, partId)

isCurrentStepValid(w) ==
  IF w.currentStep >= w.flowLength THEN FALSE
  ELSE IF w.currentStep = 0
  THEN Len(w.selectedBodyParts) > 0 /\ (w.build = "public" => w.gender)
  ELSE w.currentStep \in w.answered

updateNavigation(w) ==
  [w EXCEPT !.prevDisabled = ~(w.currentStep > 0 /\ w.enableBackNavigation),
            !.nextDisabled = ~isCurrentStepValid(w)]

\* showResults: the navigation is hidden, not disabled; part_001 goes on to
\* score the answers (stored under `${step.id}_${question.id}`, so that no
\* section of the scorer is present) and to call submitResults.
showResults(w) ==
  IF w.build = "app"
  THEN [w EXCEPT !.page = "results", !.navHidden = TRUE, !.submitted = @ + 1,
                 !.riskAssessment =
                    PhysioAssessmentApp_assessRiskLevel(
                      [selectedBodyParts |-> Arr(w.selectedBodyParts),
                       answers |-> EmptyAnswers])]
  ELSE [w EXCEPT !.page = "results", !.navHidden = TRUE]

renderCurrentStep(w) ==
  IF w.currentStep >= w.flowLength THEN showResults(w)
  ELSE updateNavigation([w EXCEPT !.page = "step"])

previousStep(w) ==
  IF w.currentStep > 0 THEN renderCurrentStep([w EXCEPT !.currentStep = @ - 1]) ELSE w

\* Variant: the step is left without looking at its answers.
nextStep_unchecked(w) == renderCurrentStep([w EXCEPT !.currentStep = @ + 1])

nextStep(w) ==
  IF isCurrentStepValid(w) THEN renderCurrentStep([w EXCEPT !.currentStep = @ + 1]) ELSE w

restartAssessment(w) ==
  renderCurrentStep([w EXCEPT !.currentStep = 0, !.selectedBodyParts = <<>>,
                              !.answered = {}, !.gender = FALSE, !.navHidden = FALSE,
                              !.submitted = 0, !.riskAssessment = NoResult])

\* steps[currentStep].canProceed() of the React flow.
canProceed(w) ==
  IF w.currentStep = 0 THEN Len(w.selectedBodyParts) > 0
  ELSE IF w.currentStep = 1 THEN 1 \in w.answered
  ELSE w.currentStep = 2

\* The application after init(): the configuration is loaded and the first
\* step is rendered.
Loaded(build, flowLength, enableBackNavigation) ==
  [NoWizard EXCEPT !.build = build, !.flowLength = flowLength,
                   !.enableBackNavigation = enableBackNavigation]

InitWizard ==
  /\ data = EmptyData
  /\ result = NoResult
  /\ pc = "input"
  /\ filled = 0
  /\ calls = NoCalls
  /\ fileServer = NoFileServer
  /\ database = NoDatabase
  /\ \/ \E build \in {"app", "public"} : \E flowLength \in 1..MaxSteps :
          \E enableBackNavigation \in BOOLEAN :
            wizard = renderCurrentStep(Loaded(build, flowLength, enableBackNavigation))
     \/ wizard = Loaded("react", ReactSteps, TRUE)

Handled(w, event) ==
  /\ wizard' = [w EXCEPT !.event = event]
  /\ UNCHANGED <<data, result, pc, filled, calls, fileServer, database>>

OnStep(builds, steps) ==
  wizard.build \in builds /\ wizard.page = "step" /\ wizard.currentStep \in steps

\* No further run of submitResults is followed once MaxSubmitted have been seen.
SubmitsLeft ==
  ~(/\ wizard.build = "app"
    /\ isCurrentStepValid(wizard)
    /\ wizard.currentStep + 1 = wizard.flowLength
    /\ wizard.submitted >= MaxSubmitted)

\* A click on an area of the body diagram.
ToggleBodyPart(partId) ==
  /\ OnStep({"app", "public"}, {0})
  /\ Handled(updateNavigation(
               [wizard EXCEPT !.selectedBodyParts = toggleBodyPart(@, partId)]),
             <<"toggle", partId>>)

\* A click on a gender option (public/app.js).
SelectGender ==
  /\ OnStep({"public"}, {0})
  /\ Handled(updateNavigation([wizard EXCEPT !.gender = TRUE]), <<"gender">>)

\* An answer to the question of the step.
Answer ==
  /\ OnStep({"app", "public"}, 1..MaxSteps)
  /\ Handled(updateNavigation([wizard EXCEPT !.answered = @ \cup {wizard.currentStep}]),
             <<"answer">>)

\* The last option of a multiple-select question is deselected.
ClearAnswer ==
  /\ OnStep({"app", "public"}, 1..MaxSteps)
  /\ wizard.currentStep \in wizard.answered
  /\ Handled(updateNavigation([wizard EXCEPT !.answered = @ \ {wizard.currentStep}]),
             <<"clear">>)

ClickPrevious ==
  /\ wizard.build \in {"app", "public"}
  /\ ~wizard.navHidden /\ ~wizard.prevDisabled
  /\ Handled(previousStep(wizard), <<"previous">>)

ClickNext ==
  /\ wizard.build \in {"app", "public"}
  /\ ~wizard.navHidden /\ ~wizard.nextDisabled
  /\ SubmitsLeft
  /\ Handled(nextStep(wizard), <<"next">>)

\* keydown on the document: the buttons' disabled flags are looked at, not
\* whether the buttons are shown.
KeyArrowLeft ==
  /\ wizard.build \in {"app", "public"}
  /\ ~wizard.prevDisabled
  /\ Handled(previousStep(wizard), <<"ArrowLeft">>)

KeyArrowRight ==
  /\ wizard.build \in {"app", "public"}
  /\ ~wizard.nextDisabled
  /\ SubmitsLeft
  /\ Handled(nextStep(wizard), <<"ArrowRight">>)

\* The button of the results page.
Restart ==
  /\ wizard.build \in {"app", "public"}
  /\ wizard.page = "results"
  /\ Handled(restartAssessment(wizard), <<"restart">>)

ReactPartClick(partId) ==
  /\ OnStep({"react"}, {0})
  /\ Handled([wizard EXCEPT !.selectedBodyParts = handlePartClick(@, partId)],
             <<"toggle", partId>>)

ReactAnswer ==
  /\ OnStep({"react"}, {1})
  /\ Handled([wizard EXCEPT !.answered = @ \cup {1}], <<"answer">>)

\* handleNext: the last step posts the answers and navigates to the results
\* when the server answers with success.
ReactNext ==
  /\ OnStep({"react"}, 0..ReactSteps)
  /\ canProceed(wizard)
  /\ \E success \in BOOLEAN :
       Handled(IF wizard.currentStep = ReactSteps - 1
               THEN IF success THEN [wizard EXCEPT !.page = "results"] ELSE wizard
               ELSE [wizard EXCEPT !.currentStep = @ + 1],
               <<"next">>)

ReactPrevious ==
  /\ OnStep({"react"}, 1..ReactSteps)
  /\ Handled([wizard EXCEPT !.currentStep = IF @ - 1 > 0 THEN @ - 1 ELSE 0], <<"previous">>)

NextWizard ==
  \/ \E partId \in WizardParts : ToggleBodyPart(partId)
  \/ SelectGender
  \/ Answer
  \/ ClearAnswer
  \/ ClickPrevious
  \/ ClickNext
  \/ KeyArrowLeft
  \/ KeyArrowRight
  \/ Restart
  \/ \E partId \in WizardParts : ReactPartClick(partId)
  \/ ReactAnswer
  \/ ReactNext
  \/ ReactPrevious

SpecWizard == InitWizard /\ [][NextWizard]_vars

(***************************************************************************)
(* Properties                                                              *)
(***************************************************************************)
Done == pc = "done"
Returned == pc = "done" /\ result.status = "returned"

\* An answer set of the data model: a list of body areas, an answers object,
\* and every multi-select answer a list when it is present.
WellFormed(d) ==
  /\ d.selectedBodyParts.t = "array"
  /\ d.answers.t = "object"
  /\ \A q \in MultiQuestions : AnswerOf(d, q).t \in {"undefined", "array"}

\* The elements of a list answer; no elements when the answer is no list.
Elems(v) == IF v.t = "array" THEN {v.a[i] : i \in 1..Len(v.a)} ELSE {}

IsYes(d, sec, fld) == AnswerOf(d, <<sec, fld>>) = Str("yes")

\* The red-flag keys answered exactly 'yes'.
YesRedFlags(d) ==
  {i \in 1..Len(redFlagQuestions) : IsYes(d, "screening_questions", redFlagQuestions[i])}

Areas(d) == Elems(d.selectedBodyParts)

\* C1: whenever at least one of the ten red-flag screening keys is answered
\* exactly 'yes', the scorer returns level HIGH, whatever the selected body
\* areas and the other answers are.
C1_RedFlagForcesHigh ==
  (Done /\ WellFormed(data) /\ YesRedFlags(data) # {})
    => (result.status = "returned" /\ result.riskLevel = "HIGH")

\* A red flag together with an answer that scores nothing by itself on a
\* body area, scored HIGH.
C1_Witness ==
  /\ Returned
  /\ IsYes(data, "screening_questions", "fever")
  /\ Areas(data) = {"wrist_left"}
  /\ result.riskScore = 15
  /\ result.riskLevel = "HIGH"

\* C2: the returned level is HIGH if riskScore >= 12 or the red-flag list is
\* non-empty, otherwise MEDIUM if riskScore >= 6, otherwise LOW, and it is
\* always one of these three values.
C2_LevelThresholds ==
  Returned =>
    /\ result.riskLevel \in {"HIGH", "MEDIUM", "LOW"}
    /\ result.riskLevel = "HIGH" <=> (result.riskScore >= 12 \/ YesRedFlags(data) # {})
    /\ result.riskLevel = "MEDIUM" <=>
         (result.riskScore >= 6 /\ result.riskScore < 12 /\ YesRedFlags(data) = {})
    /\ result.riskLevel = "LOW" <=> (result.riskScore < 6 /\ YesRedFlags(data) = {})

\* A score exactly on the HIGH threshold without any red flag.
C2_Witness ==
  /\ Returned
  /\ YesRedFlags(data) = {}
  /\ result.riskScore = 12
  /\ result.riskLevel = "HIGH"

\* The weight of a rule that fires.
W(fires, w) == IF fires THEN w ELSE 0

\* The pain level as a number: a number answer or a string of digits.
PainLevelOf(d) ==
  LET v == AnswerOf(d, <<"symptom_onset", "pain_level">>)
  IN IF v.t = "number" THEN v.n ELSE IF v = Str("8") THEN 8 ELSE 0

\* The rule table of steps 2-18: every rule with its weight, summed over the
\* rules that fire on answer set d.
RuleSum(d) ==
  LET screening == SectionOf(d, "screening_questions")
      symptom == SectionOf(d, "symptom_onset")
      functional == SectionOf(d, "functional_assessment")
      medical == SectionOf(d, "medical_history")
      demographics == SectionOf(d, "demographics")
      pain == PainLevelOf(d)
      duration == symptom["duration"]
      work == functional["work_impact"]
      sleep == functional["sleep_impact"]
      age == demographics["age"]
      pattern == Elems(symptom["pain_pattern"])
      type == Elems(symptom["pain_type"])
      moves == Elems(functional["movement_patterns"])
      avoided == Elems(functional["activities_avoided"])
      surgery == Elems(medical["surgery_history"])
      chronic == Elems(medical["chronic_conditions"])
      areas == Areas(d)
      spine == areas \cap {"lower_back", "upper_back", "neck"} # {}
      joint == areas \cap {"shoulder_left", "shoulder_right", "knee_left", "knee_right",
                           "hip_left", "hip_right", "elbow_left", "elbow_right",
                           "ankle_left", "ankle_right"} # {}
      assist == functional["assistance_needed"] = Str("yes")
  IN 15 * Cardinality({k \in DOMAIN screening : k # "accident_cause" /\ screening[k] = Str("yes")})
     + (IF pain >= 9 THEN 12 ELSE IF pain >= 7 THEN 8 ELSE IF pain >= 5 THEN 5
        ELSE IF pain >= 3 THEN 2 ELSE 0)
     + W(duration = Str("More than 6 months"), 5) + W(duration = Str("3-6 months"), 3)
     + W(duration = Str("1-3 months"), 2) + W(duration = Str("1-4 weeks"), 1)
     + W(work = Str("Unable to work/perform activities"), 8) + W(work = Str("Severely"), 6)
     + W(work = Str("Moderately"), 4) + W(work = Str("Slightly"), 2)
     + W(sleep = Str("Unable to sleep due to symptoms"), 7)
     + W(sleep = Str("Frequent sleep disturbance"), 5)
     + W(sleep = Str("Occasional sleep disturbance"), 3)
     + W("Constant" \in pattern, 6) + W("At night" \in pattern, 5)
     + W("When moving" \in pattern, 3) + W("In the morning" \in pattern, 2)
     + W("After activity" \in pattern, 2)
     + W("Sharp" \in type, 4) + W("Burning" \in type, 3) + W("Tingling" \in type, 3)
     + W("Numbness" \in type, 4) + W("Weakness" \in type, 5)
     + W(medical["previous_injuries"] = Str("yes"), 3)
     + W(surgery # {} /\ "None" \notin surgery, 4)
     + W(chronic # {} /\ "None" \notin chronic, 3)
     + W(medical["medications"] = Str("yes"), 2)
     + W(screening["accident_cause"] = Str("yes"), 4)
     + W(areas \cap {"lower_back", "upper_back", "neck", "head"} # {}, 2)
     + W(areas \cap {"shoulder_left", "shoulder_right", "knee_left", "knee_right",
                     "hip_left", "hip_right", "chest"} # {}, 1)
     + W(spine /\ ("Tingling" \in type \/ "Numbness" \in type), 3)
     + W(spine /\ "Constant" \in pattern, 2)
     + W(spine /\ "Walking" \in moves, 2)
     + W(joint /\ "Weakness" \in type, 3)
     + W(joint /\ assist, 2)
     + W(age = Str("70+ years"), 3) + W(age = Str("60 - 69 years"), 2)
     + W(demographics["activity_level"]
           = Str("Extremely active (very hard exercise, physical job)"), 2)
     + W("Lifting objects" \in moves, 2) + W("Reaching overhead" \in moves, 2)
     + W("Bending forward" \in moves, 3) + W("Bending backward" \in moves, 3)
     + W("Twisting/rotating" \in moves, 3) + W("Walking" \in moves, 4)
     + W("Climbing stairs" \in moves, 3)
     + W("Exercise/sports" \in avoided, 2) + W("Work activities" \in avoided, 3)
     + W(assist, 4)

C4_Total == Done => result.status = "returned"

AllQuestions == ScalarQuestions \cup MultiQuestions

\* The neutral value of a question: 'no', pain level 0, the empty list, the
\* empty string.
NeutralValue(q) ==
  IF q \in YesNoQuestions THEN Str("no")
  ELSE IF q[2] = "pain_level" THEN Num(0)
  ELSE IF q \in MultiQuestions THEN Arr(<<>>)
  ELSE Str("")

NeutralSection(sec) == Obj([f \in SectionFields(sec) |-> NeutralValue(<<sec, f>>)])

WithSection(d, sec, v) == [d EXCEPT !.answers = Obj([@.o EXCEPT ![sec] = v])]

\* What a call on d returns as score, level and factors; "raised" when it raises.
RiskOf(d) ==
  IF assessRiskLevelThrows(d) THEN <<"raised">>
  ELSE LET r == assessRiskLevel(d) IN <<r.riskScore, r.level, r.riskFactors>>

ResultRisk == <<result.riskScore, result.riskLevel, result.riskFactors>>

\* C5: an answer set in which a section or a field is absent yields the same
\* riskScore, level and riskFactors as the one in which it holds its neutral
\* value ('no', pain level 0, empty list, empty string).  The neutral answer
\* counts as one of the MaxAnswers answers of the answer set compared with.
C5_AbsentIsNeutral ==
  (Returned /\ filled < MaxAnswers) =>
    /\ \A sec \in SectionNames :
         data.answers.o[sec] = Undefined =>
           /\ RiskOf(WithSection(data, sec, NeutralSection(sec))) = ResultRisk
           /\ RiskOf(WithSection(data, sec, Obj(EmptySection(sec)))) = ResultRisk
    /\ \A q \in AllQuestions :
         AnswerOf(data, q) = Undefined =>
           RiskOf(WithAnswer(data, q, NeutralValue(q))) = ResultRisk

\* A scored answer set with an absent section, and a present section with an
\* absent field next to an answer that scores.
C5_Witness ==
  /\ Returned
  /\ data.answers.o["demographics"] = Undefined
  /\ AnswerOf(data, <<"symptom_onset", "pain_level">>) = Num(7)
  /\ AnswerOf(data, <<"symptom_onset", "duration">>) = Undefined
  /\ result.riskScore = 8

\* C6: the empty answer set (no body areas, answers = {}) scores 0, level LOW,
\* with an empty riskFactors list.
C6_EmptyScoresZero ==
  (Done /\ data = EmptyData) =>
    /\ result.status = "returned"
    /\ result.riskScore = 0
    /\ result.riskLevel = "LOW"
    /\ result.riskFactors = <<>>

\* The empty answer set has been scored.
C6_Witness == Returned /\ data = EmptyData /\ filled = 0

\* The answer sets that differ from d by one single additional condition: a
\* higher pain level, one 'no' turned into 'yes', one more body area, one more
\* option in a multi-select answer.
OneMore(d) ==
  LET pl == <<"symptom_onset", "pain_level">>
  IN {WithAnswer(d, pl, Num(n)) :
        n \in {m \in PainLevels : AnswerOf(d, pl).t = "number" /\ m > AnswerOf(d, pl).n}}
     \cup {WithAnswer(d, q, Str("yes")) : q \in {k \in YesNoQuestions : AnswerOf(d, k) = Str("no")}}
     \cup {WithBodyPart(d, a) : a \in BodyPartIds \ Areas(d)}
     \cup UNION {{WithOption(d, q, x) : x \in Options(q) \ Elems(AnswerOf(d, q))} :
                 q \in {k \in MultiQuestions : AnswerOf(d, k).t \in {"undefined", "array"}}}

\* C7: adding one single additional condition to an answer set never decreases
\* riskScore.
C7_Monotone ==
  Returned =>
    \A d2 \in OneMore(data) :
      /\ ~assessRiskLevelThrows(d2)
      /\ assessRiskLevel(d2).riskScore >= result.riskScore

HasFactor(text) == \E i \in 1..Len(result.riskFactors) : result.riskFactors[i] = <<text>>

\* What a list answer adds to the score: the score with it minus the score
\* with the empty list in its place.
ListContribution(q) ==
  result.riskScore - assessRiskLevel(WithAnswer(data, q, Arr(<<>>))).riskScore

\* A list that is non-empty and is not the sentinel list [None].
CountsAsHistory(list) == list # <<>> /\ list # <<"None">>

\* C8: surgery history contributes +4 ('Previous surgeries') exactly when the
\* list is non-empty and is not the sentinel list [None]; chronic conditions
\* contribute +3 ('Chronic medical conditions') under the same condition; also
\* for lists that hold 'None' together with another entry.
C8_HistoryUnlessSentinel ==
  (Returned /\ WellFormed(data)) =>
    LET sq == <<"medical_history", "surgery_history">>
        cq == <<"medical_history", "chronic_conditions">>
        surgery == OrEmptyArray(AnswerOf(data, sq)).a
        chronic == OrEmptyArray(AnswerOf(data, cq)).a
    IN /\ HasFactor("Previous surgeries") <=> CountsAsHistory(surgery)
       /\ ListContribution(sq) = W(CountsAsHistory(surgery), 4)
       /\ HasFactor("Chronic medical conditions") <=> CountsAsHistory(chronic)
       /\ ListContribution(cq) = W(CountsAsHistory(chronic), 3)

\* The other orderings of the elements of a list.
Orderings(a) == {[i \in 1..Len(a) |-> a[p[i]]] : p \in Permutations(1..Len(a))} \ {a}

\* The answer sets that are d with the elements of one input array permuted.
Reordered(d) ==
  {[d EXCEPT !.selectedBodyParts = Arr(b)] : b \in Orderings(d.selectedBodyParts.a)}
    \cup UNION {{WithAnswer(d, q, Arr(b)) : b \in Orderings(AnswerOf(d, q).a)} :
                q \in {k \in MultiQuestions : AnswerOf(d, k).t = "array"}}

\* C9: a call on the answer set with the elements of any input array permuted
\* returns the same riskScore, level and riskFactors (content and order) as
\* the call on the answer set itself.  (A second call on the very same answer
\* set is the same function of the same value.)
C9_OrderIndependent ==
  Returned => \A d2 \in Reordered(data) : RiskOf(d2) = ResultRisk

\* Two pain types given in the opposite of the rule order, scored in rule order.
C9_Witness ==
  /\ Returned
  /\ AnswerOf(data, <<"symptom_onset", "pain_type">>) = Arr(<<"Numbness", "Sharp">>)
  /\ result.riskFactors = << <<"Sharp pain">>, <<"Numbness">> >>

\* A key with every underscore replaced by a space.
Spaced(cs) == [i \in 1..Len(cs) |-> IF cs[i] = "_" THEN " " ELSE cs[i]]

\* The keys answered exactly 'yes', in the order of the ten keys, spaced.
RECURSIVE ExpectedFlagsFrom(_, _)
ExpectedFlagsFrom(d, i) ==
  IF i > 10 THEN <<>>
  ELSE (IF IsYes(d, "screening_questions", redFlagQuestions[i])
        THEN <<Spaced(Chars(redFlagQuestions[i]))>> ELSE <<>>)
         \o ExpectedFlagsFrom(d, i + 1)

RECURSIVE CommaJoined(_)
CommaJoined(flags) ==
  IF Len(flags) = 1 THEN flags[1] ELSE flags[1] \o <<", ">> \o CommaJoined(Tail(flags))

\* d without any answer to the ten red-flag keys.
WithoutRedFlags(d) ==
  WithSection(d, "screening_questions",
              Obj([f \in SectionFields("screening_questions") |->
                     IF f = "accident_cause" THEN SectionOf(d, "screening_questions")[f]
                     ELSE Undefined]))

\* C10: checkRedFlags returns, in the order of the ten keys, one entry per key
\* answered exactly 'yes', the key with its underscores replaced by spaces; a
\* non-empty list adds 15 per entry to riskScore and puts exactly one factor
\* 'Red flags: ...' (entries joined by ', ') at the head of riskFactors.
C10_RedFlagList ==
  Returned =>
    LET expected == ExpectedFlagsFrom(data, 1)
        rest == IF expected = <<>>
                THEN [riskScore |-> result.riskScore, riskFactors |-> result.riskFactors]
                ELSE assessRiskLevel(WithoutRedFlags(data))
    IN /\ checkRedFlags(data) = expected
       /\ result.riskScore = rest.riskScore + 15 * Len(expected)
       /\ result.riskFactors =
            (IF expected = <<>> THEN <<>> ELSE << <<"Red flags: ">> \o CommaJoined(expected) >>)
              \o rest.riskFactors
       /\ \A i \in 1..Len(rest.riskFactors) : Head(rest.riskFactors[i]) # "Red flags: "

\* Two red flags, listed in key order behind one aggregate factor.
C10_Witness ==
  /\ Returned
  /\ YesRedFlags(data) = {1, 10}
  /\ result.riskScore = 30
  /\ Len(result.riskFactors) = 1
  /\ checkRedFlags(data) =
       << <<"w","e","i","g","h","t"," ","l","o","s","s">>, <<"f","e","v","e","r">> >>

\* A rule of the table: whether it fires, and the factor it stands for.
Rule(fires, text) == <<fires, <<text>>>>

\* The rules in the order of the specification's steps, each with its factor.
\* (Surgery and chronic-condition lists fire as in C3.)
RuleTable(d) ==
  LET screening == SectionOf(d, "screening_questions")
      symptom == SectionOf(d, "symptom_onset")
      functional == SectionOf(d, "functional_assessment")
      medical == SectionOf(d, "medical_history")
      demographics == SectionOf(d, "demographics")
      pain == PainLevelOf(d)
      level(name) == <<name, ToString(pain), "/10)">>
      duration == symptom["duration"]
      work == functional["work_impact"]
      sleep == functional["sleep_impact"]
      age == demographics["age"]
      pattern == Elems(symptom["pain_pattern"])
      type == Elems(symptom["pain_type"])
      moves == Elems(functional["movement_patterns"])
      avoided == Elems(functional["activities_avoided"])
      surgery == Elems(medical["surgery_history"])
      chronic == Elems(medical["chronic_conditions"])
      areas == Areas(d)
      spine == areas \cap {"lower_back", "upper_back", "neck"} # {}
      joint == areas \cap {"shoulder_left", "shoulder_right", "knee_left", "knee_right",
                           "hip_left", "hip_right", "elbow_left", "elbow_right",
                           "ankle_left", "ankle_right"} # {}
      assist == functional["assistance_needed"] = Str("yes")
      flags == ExpectedFlagsFrom(d, 1)
  IN << <<flags # <<>>,
          IF flags # <<>> THEN <<"Red flags: ">> \o CommaJoined(flags) ELSE <<>> >>,
        <<pain >= 9, level("Very severe pain (level ")>>,
        <<pain >= 7 /\ pain < 9, level("Severe pain (level ")>>,
        <<pain >= 5 /\ pain < 7, level("Moderate pain (level ")>>,
        <<pain >= 3 /\ pain < 5, level("Mild pain (level ")>>,
        Rule(duration = Str("More than 6 months"), "Chronic symptoms (>6 months)"),
        Rule(duration = Str("3-6 months"), "Prolonged symptoms (3-6 months)"),
        Rule(duration = Str("1-3 months"), "Persistent symptoms (1-3 months)"),
        Rule(duration = Str("1-4 weeks"), "Recent symptoms (1-4 weeks)"),
        Rule(work = Str("Unable to work/perform activities"), "Severe functional limitation"),
        Rule(work = Str("Severely"), "Significant functional impact"),
        Rule(work = Str("Moderately"), "Moderate functional impact"),
        Rule(work = Str("Slightly"), "Mild functional impact"),
        Rule(sleep = Str("Unable to sleep due to symptoms"), "Severe sleep disturbance"),
        Rule(sleep = Str("Frequent sleep disturbance"), "Frequent sleep problems"),
        Rule(sleep = Str("Occasional sleep disturbance"), "Occasional sleep problems"),
        Rule("Constant" \in pattern, "Constant pain pattern"),
        Rule("At night" \in pattern, "Night pain"),
        Rule("When moving" \in pattern, "Movement-related pain"),
        Rule("In the morning" \in pattern, "Morning stiffness/pain"),
        Rule("After activity" \in pattern, "Post-activity pain"),
        Rule("Sharp" \in type, "Sharp pain"),
        Rule("Burning" \in type, "Burning pain"),
        Rule("Tingling" \in type, "Tingling sensation"),
        Rule("Numbness" \in type, "Numbness"),
        Rule("Weakness" \in type, "Muscle weakness"),
        Rule(medical["previous_injuries"] = Str("yes"), "Previous injuries to affected area"),
        Rule(surgery # {} /\ "None" \notin surgery, "Previous surgeries"),
        Rule(chronic # {} /\ "None" \notin chronic, "Chronic medical conditions"),
        Rule(medical["medications"] = Str("yes"), "Currently taking medications"),
        Rule(screening["accident_cause"] = Str("yes"), "Symptoms caused by accident/fall"),
        Rule(areas \cap {"lower_back", "upper_back", "neck", "head"} # {},
             "High-risk body area affected"),
        Rule(areas \cap {"shoulder_left", "shoulder_right", "knee_left", "knee_right",
                         "hip_left", "hip_right", "chest"} # {},
             "Moderate-risk body area affected"),
        Rule(spine /\ ("Tingling" \in type \/ "Numbness" \in type),
             "Spine-related neurological symptoms"),
        Rule(spine /\ "Constant" \in pattern, "Constant spine pain"),
        Rule(spine /\ "Walking" \in moves, "Spine pain affecting walking"),
        Rule(joint /\ "Weakness" \in type, "Joint-related muscle weakness"),
        Rule(joint /\ assist, "Joint requiring assistance"),
        Rule(age = Str("70+ years"), "Advanced age (70+)"),
        Rule(age = Str("60 - 69 years"), "Older age (60-69)"),
        Rule(demographics["activity_level"]
               = Str("Extremely active (very hard exercise, physical job)"),
             "Extremely active lifestyle"),
        Rule("Lifting objects" \in moves, "Pain with lifting"),
        Rule("Reaching overhead" \in moves, "Pain with overhead activities"),
        Rule("Bending forward" \in moves, "Pain with forward bending"),
        Rule("Bending backward" \in moves, "Pain with backward bending"),
        Rule("Twisting/rotating" \in moves, "Pain with twisting/rotation"),
        Rule("Walking" \in moves, "Pain with walking"),
        Rule("Climbing stairs" \in moves, "Pain with stair climbing"),
        Rule("Exercise/sports" \in avoided, "Avoiding exercise due to pain"),
        Rule("Work activities" \in avoided, "Work activities affected"),
        Rule(assist, "Requires assistance with daily activities") >>

\* The factors of the rules of a table that fire, in table order.
RECURSIVE FiredFrom(_, _)
FiredFrom(table, i) ==
  IF i > Len(table) THEN <<>>
  ELSE (IF table[i][1] THEN <<table[i][2]>> ELSE <<>>) \o FiredFrom(table, i + 1)

FiredFactors(table) == FiredFrom(table, 1)

Catalog(q) ==
  IF q[2] = "duration"
  THEN {"More than 6 months", "3-6 months", "1-3 months", "1-4 weeks"}
  ELSE IF q[2] = "work_impact"
  THEN {"Unable to work/perform activities", "Severely", "Moderately", "Slightly"}
  ELSE IF q[2] = "sleep_impact"
  THEN {"Unable to sleep due to symptoms", "Frequent sleep disturbance",
        "Occasional sleep disturbance"}
  ELSE IF q[2] = "age" THEN {"70+ years", "60 - 69 years"}
  ELSE {"Extremely active (very hard exercise, physical job)"}

\* The select questions answered with a string that is no catalog string.
OffCatalogAnswers(d) ==
  {q \in SelectQuestions : AnswerOf(d, q).t = "string" /\ AnswerOf(d, q).s \notin Catalog(q)}

\* C12: a duration, work-impact, sleep-impact, age or activity-level value
\* that is not character for character a catalog string (another wording, or
\* a catalog string in another case) adds nothing to riskScore and no factor:
\* score, level and factors are those of the answer set without that answer.
C12_LiteralMatchOnly ==
  Returned =>
    \A q \in OffCatalogAnswers(data) : RiskOf(WithAnswer(data, q, Undefined)) = ResultRisk

\* 'severely' in lower case next to an answer that scores: only the latter counts.
C12_Witness ==
  /\ Returned
  /\ AnswerOf(data, <<"functional_assessment", "work_impact">>) = Str("severely")
  /\ IsYes(data, "functional_assessment", "assistance_needed")
  /\ result.riskScore = 4
  /\ result.riskFactors = << <<"Requires assistance with daily activities">> >>

\* How often a factor occurs in riskFactors.
FactorCount(text) ==
  Cardinality({i \in 1..Len(result.riskFactors) : result.riskFactors[i] = <<text>>})

\* The weight of a factor when it is present.
FactorWeight(text, w) == IF HasFactor(text) THEN w ELSE 0

\* What the area-specific combination rules add, read off the factors.
ComboWeights ==
  FactorWeight("Spine-related neurological symptoms", 3)
    + FactorWeight("Constant spine pain", 2)
    + FactorWeight("Spine pain affecting walking", 2)
    + FactorWeight("Joint-related muscle weakness", 3)
    + FactorWeight("Joint requiring assistance", 2)

WithoutAreas(d) == [d EXCEPT !.selectedBodyParts = Arr(<<>>)]

\* C13: when at least one selected area is in {lower_back, upper_back, neck,
\* head} the score gains 2 and one factor, exactly once; when at least one is
\* in {shoulder_left, shoulder_right, knee_left, knee_right, hip_left,
\* hip_right, chest} it gains 1 and one factor, exactly once; both can apply,
\* and neither grows with the number of matching areas.
C13_AreaCategoryOnce ==
  (Returned /\ WellFormed(data)) =>
    LET high == Areas(data) \cap {"lower_back", "upper_back", "neck", "head"} # {}
        moderate == Areas(data) \cap {"shoulder_left", "shoulder_right", "knee_left",
                                      "knee_right", "hip_left", "hip_right", "chest"} # {}
    IN /\ FactorCount("High-risk body area affected") = W(high, 1)
       /\ FactorCount("Moderate-risk body area affected") = W(moderate, 1)
       /\ result.riskScore - assessRiskLevel(WithoutAreas(data)).riskScore
            = W(high, 2) + W(moderate, 1) + ComboWeights

\* Two high-risk areas and a moderate-risk one: 2 + 1, one factor each.
C13_Witness ==
  /\ Returned
  /\ Areas(data) = {"lower_back", "neck", "knee_left"}
  /\ result.riskScore = 3
  /\ Len(result.riskFactors) = 2

\* d with the spine areas taken out of the selected areas.
WithoutSpine(d) ==
  [d EXCEPT !.selectedBodyParts =
     Arr(SelectSeq(@.a, LAMBDA a : a \notin {"lower_back", "upper_back", "neck"}))]

\* C14: the three spine combination rules (tingling or numbness +3, constant
\* pattern +2, 'Walking' among the movement patterns +2) fire only when a
\* selected area is lower_back, upper_back or neck; without such an area
\* (only head, only joints) none adds weight or a factor; the tingling-or-
\* numbness rule adds 3 once, also when both are present.
C14_SpineCombos ==
  (Returned /\ WellFormed(data)) =>
    LET spine == Areas(data) \cap {"lower_back", "upper_back", "neck"} # {}
        type == Elems(AnswerOf(data, <<"symptom_onset", "pain_type">>))
        pattern == Elems(AnswerOf(data, <<"symptom_onset", "pain_pattern">>))
        moves == Elems(AnswerOf(data, <<"functional_assessment", "movement_patterns">>))
        neuro == spine /\ ("Tingling" \in type \/ "Numbness" \in type)
        constant == spine /\ "Constant" \in pattern
        walking == spine /\ "Walking" \in moves
        rest == assessRiskLevel(WithoutSpine(data))
        headToo == "head" \in Areas(data)
    IN /\ FactorCount("Spine-related neurological symptoms") = W(neuro, 1)
       /\ FactorCount("Constant spine pain") = W(constant, 1)
       /\ FactorCount("Spine pain affecting walking") = W(walking, 1)
       /\ result.riskScore - rest.riskScore
            = W(neuro, 3) + W(constant, 2) + W(walking, 2) + W(spine /\ ~headToo, 2)

\* Tingling and numbness on the lower back: the combination counts 3, once.
C14_Witness ==
  /\ Returned
  /\ Areas(data) = {"lower_back"}
  /\ AnswerOf(data, <<"symptom_onset", "pain_type">>) = Arr(<<"Tingling", "Numbness">>)
  /\ FactorCount("Spine-related neurological symptoms") = 1
  /\ result.riskScore = 3 + 4 + 2 + 3

\* C15: assistance needed = 'yes' always adds 4 ('Requires assistance with
\* daily activities') and adds a further 2 ('Joint requiring assistance')
\* exactly when a selected area is a shoulder, knee, hip, elbow or ankle:
\* 6 together with knee_left selected, 4 with no joint area selected.
C15_AssistanceAdds ==
  (Returned /\ WellFormed(data)) =>
    LET q == <<"functional_assessment", "assistance_needed">>
        assist == AnswerOf(data, q) = Str("yes")
        joint == Areas(data) \cap {"shoulder_left", "shoulder_right", "knee_left",
                                   "knee_right", "hip_left", "hip_right", "elbow_left",
                                   "elbow_right", "ankle_left", "ankle_right"} # {}
    IN /\ FactorCount("Requires assistance with daily activities") = W(assist, 1)
       /\ FactorCount("Joint requiring assistance") = W(assist /\ joint, 1)
       /\ assist =>
            result.riskScore - assessRiskLevel(WithAnswer(data, q, Undefined)).riskScore
              = IF joint THEN 6 ELSE 4

\* Assistance with the left knee selected: 4 + 2, and 1 for the area.
C15_Witness ==
  /\ Returned
  /\ Areas(data) = {"knee_left"}
  /\ IsYes(data, "functional_assessment", "assistance_needed")
  /\ result.riskScore = 6 + 1
  /\ HasFactor("Joint requiring assistance")
  /\ HasFactor("Requires assistance with daily activities")

\* C16: riskScore is a non-negative integer and never exceeds the sum of all
\* rule weights, 284 (ten red flags at 15, and 134 for the largest weight of
\* every other rule), whatever the pain level, also above 10 or below 0.
C16_ScoreBounds == Returned => result.riskScore \in 0..284

\* Every rule fires at its largest weight, with a pain level above the scale.
C16_Witness ==
  /\ Returned
  /\ data = WithAnswer(WorstCaseButPain, <<"symptom_onset", "pain_level">>, Num(11))
  /\ result.riskScore = 284

\* A line that is present when its condition holds.
Line(present, text) == IF present THEN <<text>> ELSE <<>>

\* C17: recommendations is, in this order, the lead line of the returned level
\* (HIGH and MEDIUM have one each, LOW has none), the fixed physiotherapist
\* line, and the lines for 'back', 'knee', 'shoulder' and 'neck', each present
\* exactly when some selected area id contains that word, independently of the
\* others.
C17_Recommendations ==
  Returned =>
    LET areas == Areas(data)
    IN result.recommendations =
         Line(result.riskLevel = "HIGH", "Immediate medical evaluation is strongly recommended.")
         \o Line(result.riskLevel = "MEDIUM",
                 "Schedule a medical evaluation within the next few days.")
         \o <<"Schedule an appointment with a qualified physiotherapist for a comprehensive evaluation.">>
         \o Line(areas \cap {"lower_back", "upper_back"} # {},
                 "Consider core strengthening exercises to support your spine.")
         \o Line(areas \cap {"knee_left", "knee_right"} # {},
                 "Avoid high-impact activities until evaluated by a healthcare professional.")
         \o Line(areas \cap {"shoulder_left", "shoulder_right"} # {},
                 "Avoid overhead activities that may aggravate your shoulder symptoms.")
         \o Line("neck" \in areas, "Pay attention to posture and ergonomics in daily activities.")

\* A MEDIUM result on lower back and neck: lead line, fixed line, back, neck.
C17_Witness ==
  /\ Returned
  /\ Areas(data) = {"lower_back", "neck"}
  /\ result.riskLevel = "MEDIUM"
  /\ Len(result.recommendations) = 4
  /\ result.recommendations[1] = "Schedule a medical evaluation within the next few days."
  /\ result.recommendations[4] = "Pay attention to posture and ergonomics in daily activities."

\* The six warning signs every result lists.
WarningSigns ==
  <<"Severe or worsening pain",
    "Numbness, tingling, or weakness in limbs",
    "Loss of bowel or bladder control",
    "Fever with back pain",
    "Pain that wakes you at night",
    "Inability to bear weight on affected area">>

\* C18: medicalAttention ends with the same six warning signs in the same
\* order; before them stands exactly one lead line when the returned level is
\* HIGH or MEDIUM (a different one for each) and none when it is LOW, so that
\* its length is 7 for HIGH and MEDIUM and 6 for LOW.
C18_MedicalAttention ==
  Returned =>
    LET m == result.medicalAttention
        n == Len(m)
    IN /\ n = IF result.riskLevel \in {"HIGH", "MEDIUM"} THEN 7 ELSE 6
       /\ SubSeq(m, n - 5, n) = WarningSigns
       /\ result.riskLevel = "HIGH" =>
            m[1] = "Seek immediate medical attention due to the presence of red flags or concerning symptoms."
       /\ result.riskLevel = "MEDIUM" =>
            m[1] = "Monitor symptoms closely and seek medical attention if they worsen."

\* A result that is HIGH by its score alone, without any red flag.
C18_Witness ==
  /\ Returned
  /\ YesRedFlags(data) = {}
  /\ result.riskLevel = "HIGH"
  /\ Len(result.medicalAttention) = 7

\* C19: calls of the scorer do not interfere: whatever runs before, after or
\* in between its steps, a call returns what a call alone on the same answer
\* set returns, and from its entry on the answer set it was given is the one
\* the caller passed.
C19_CallsIndependent ==
  \A c \in Callers :
    /\ calls[c].at # 0 => calls[c].data = calls[c].given
    /\ calls[c].at = Finished => calls[c].returned = processAssessmentData(calls[c].given)

\* A whole call on the documented scenario has run while another call, on the
\* answer set on which every rule fires, is in the middle of its rules.
C19_Witness ==
  /\ calls[1].at = 10
  /\ calls[1].given = WorstCase
  /\ calls[2].at = Finished
  /\ calls[2].given = LowerBackScenario
  /\ calls[2].returned.riskScore = 15

\* The eleven screening questions of the README.
ScreeningQuestions == SectionFields("screening_questions")

\* C20: a 'yes' to any one of the eleven screening questions of the README,
\* the accident question included, is reported as a red flag and gives the
\* level HIGH.
C20_ElevenRedFlags ==
  (Done /\ WellFormed(data)
     /\ \E f \in ScreeningQuestions : IsYes(data, "screening_questions", f)) =>
    /\ result.status = "returned"
    /\ result.riskLevel = "HIGH"
    /\ checkRedFlags(data) # <<>>

\* C22: the red-flag override never changes the outcome: the level is HIGH
\* exactly when riskScore >= 12, MEDIUM exactly when 6 <= riskScore <= 11 and
\* LOW exactly when riskScore <= 5, because an answer set with a red flag
\* already scores at least 15.
C22_OverrideNeverDecides ==
  Returned =>
    /\ result.riskLevel = "HIGH" <=> result.riskScore >= 12
    /\ result.riskLevel = "MEDIUM" <=> (result.riskScore >= 6 /\ result.riskScore <= 11)
    /\ result.riskLevel = "LOW" <=> result.riskScore <= 5
    /\ YesRedFlags(data) # {} => result.riskScore >= 15

\* One red flag and nothing else: the flag alone carries the score past 12.
C22_Witness ==
  /\ Returned
  /\ Cardinality(YesRedFlags(data)) = 1
  /\ Areas(data) = {}
  /\ result.riskScore = 15
  /\ result.riskLevel = "HIGH"
  /\ Len(result.riskFactors) = 1

\* C23: riskFactors is empty exactly when riskScore is 0; so every MEDIUM or
\* HIGH result carries at least one factor, and every rule that adds weight
\* also appends a factor.
C23_FactorsIffScore ==
  Returned =>
    /\ result.riskFactors = <<>> <=> result.riskScore = 0
    /\ result.riskLevel \in {"MEDIUM", "HIGH"} => Len(result.riskFactors) >= 1

\* An answer below every bucket: no weight and no factor.
C23_Witness ==
  /\ Returned
  /\ AnswerOf(data, <<"symptom_onset", "pain_level">>) = Num(2)
  /\ result.riskScore = 0
  /\ result.riskFactors = <<>>

(***************************************************************************)
(* The file-backed server                                                  *)
(***************************************************************************)
Accepted == {fileServer.accepted[i] : i \in 1..Len(fileServer.accepted)}

\* The red flag keys a request body answers with 'yes'.
FlaggedKeys(body) ==
  IF "answers" \notin DOMAIN body THEN {}
  ELSE LET screening == body["answers"].o["screening_questions"]
       IN IF screening.t # "object" THEN {}
          ELSE {q \in {"weight_loss", "corticosteroids", "constant_pain", "cancer_history",
                       "general_symptoms", "night_pain", "weight_bearing",
                       "neurological_symptoms", "bowel_bladder", "fever"} :
                  screening.o[q] = Str("yes")}

LevelByFlags(body) == IF FlaggedKeys(body) # {} THEN Str("HIGH") ELSE Str("LOW")

\* C21: the file-backed submit stores and returns riskLevel HIGH exactly when
\* a red flag key of the submitted screening answers is 'yes' and LOW
\* otherwise, never another level, whatever riskLevel the request carried.
C21_FileLevelHighOrLow ==
  /\ \A a \in Accepted : a.stored["riskLevel"] = LevelByFlags(a.body)
  /\ \A f \in fileServer.files : f.content["riskLevel"] \in {Str("HIGH"), Str("LOW")}
  /\ fileServer.reply.kind = "submit" /\ fileServer.reply.status = 200 =>
       fileServer.reply.riskLevel =
         LevelByFlags(fileServer.accepted[Len(fileServer.accepted)].body)

C21_Witness ==
  /\ fileServer.reply.kind = "submit"
  /\ fileServer.reply.status = 200
  /\ fileServer.reply.riskLevel = Str("HIGH")
  /\ Prop(fileServer.accepted[Len(fileServer.accepted)].body, "riskLevel") = Str("MEDIUM")
  /\ \E a \in Accepted :
       Prop(a.body, "riskLevel") = Str("HIGH") /\ a.stored["riskLevel"] = Str("LOW")

\* C28: every successful submit returns an id under which the results
\* endpoint returns exactly what that submit stored, and two successful
\* submits never share an id or a file.
C28_NeverOverwrittenOrShadowed ==
  /\ \A a \in Accepted :
       /\ \E f \in fileServer.files : f.content["id"] = a.stored["id"]
       /\ \A f \in fileServer.files : f.content["id"] = a.stored["id"] => f.content = a.stored
  /\ \A i, j \in 1..Len(fileServer.accepted) :
       i # j => /\ fileServer.accepted[i].stored["id"] # fileServer.accepted[j].stored["id"]
                /\ fileServer.accepted[i].file # fileServer.accepted[j].file
  /\ fileServer.reply.kind = "result" /\ fileServer.reply.status = 200 =>
       \A a \in Accepted : a.stored["id"] = fileServer.reply.id => fileServer.reply.data = a.stored

\* C29: the analytics endpoint reports as totalAssessments the number of
\* result files, and its HIGH and LOW counters are natural numbers that add
\* up to totalAssessments.
C29_AnalyticsTotals ==
  fileServer.reply.kind = "analytics" =>
    LET analytics == fileServer.reply.analytics
    IN /\ analytics.totalAssessments = Cardinality({f.name : f \in fileServer.files})
       /\ analytics.riskLevels["HIGH"] \in Nat
       /\ analytics.riskLevels["LOW"] \in Nat
       /\ analytics.riskLevels["HIGH"] + analytics.riskLevels["LOW"] = analytics.totalAssessments

C29_Witness ==
  /\ fileServer.reply.kind = "analytics"
  /\ fileServer.reply.analytics.totalAssessments = 2
  /\ fileServer.reply.analytics.riskLevels["HIGH"] = 1
  /\ fileServer.reply.analytics.riskLevels["LOW"] = 1
  /\ \E a \in Accepted : Prop(a.body, "riskLevel") = Str("MEDIUM")

(***************************************************************************)
(* The two scorers                                                         *)
(***************************************************************************)
Rank(level) == CASE level = "LOW" -> 0 [] level = "MEDIUM" -> 1 [] level = "HIGH" -> 2

\* C24: on the same answers the level of the browser scorer is never higher,
\* in the order LOW < MEDIUM < HIGH, than the level of the server scorer.
C24_BrowserNeverHigher ==
  Returned /\ wizard.riskAssessment.status = "returned" =>
    Rank(wizard.riskAssessment.level) <= Rank(result.riskLevel)

C24_Witness ==
  /\ Returned
  /\ wizard.riskAssessment.status = "returned"
  /\ YesRedFlags(data) = {}
  /\ wizard.riskAssessment.riskScore = 8
  /\ wizard.riskAssessment.level = "MEDIUM"
  /\ result.riskScore = 7
  /\ result.riskLevel = "MEDIUM"
  /\ Len(data.selectedBodyParts.a) = 4

(***************************************************************************)
(* The database routes                                                     *)
(***************************************************************************)
ScorerFields ==
  {"riskLevel", "riskScore", "riskFactors", "summary", "recommendations", "selfCareTips",
   "medicalAttention"}

RowOf(db, id) == CHOOSE row \in db.assessments : row.id = id

CompletedEvents(db) ==
  {i \in 1..Len(db.analytics) : db.analytics[i].eventType = "assessment_completed"}

\* C25: a submit answered with success leaves the row with status
\* 'completed', a completedAt set by the server and the seven scorer fields
\* as the scorer computes them for the body, whatever the body carried under
\* those names; a submit answered 500 has success false and adds no
\* completion event, and changes no row when scoring or the update raised.
C25_SubmitCompletes ==
  [][database'.reply.kind = "submit" /\ database' # database =>
       \A scored \in {processAssessmentData(DataOf(database'.reply.body))} :
         LET reply == database'.reply
         IN /\ reply.status = 200 =>
                 /\ reply.success
                 /\ \A row \in {RowOf(database', reply.id)} :
                      /\ row.fields["status"] = Str("completed")
                      /\ row.fields["completedAt"] = [t |-> "date", ms |-> database'.now]
                      /\ \A expected \in {ProcessedObject(scored)} :
                           \A k \in ScorerFields : row.fields[k] = expected[k]
                 /\ Cardinality(CompletedEvents(database')) =
                      Cardinality(CompletedEvents(database)) + 1
            /\ reply.status = 500 =>
                 /\ ~reply.success
                 /\ database'.analytics = database.analytics
                 /\ (scored.status = "thrown" \/ ~HasRow(reply.id)) =>
                      database'.assessments = database.assessments]_vars

C25_Witness ==
  /\ database.reply.kind = "submit"
  /\ database.reply.status = 200
  /\ Prop(database.reply.body, "status") = Str("abandoned")
  /\ Prop(database.reply.body, "riskLevel") = Str("LOW")
  /\ RowOf(database, database.reply.id).fields["riskLevel"] = Str("HIGH")
  /\ RowOf(database, database.reply.id).fields["status"] = Str("completed")
  /\ RowOf(database, database.reply.id).fields["completedAt"].ms > 0

(***************************************************************************)
(* The questionnaire in the browser                                        *)
(***************************************************************************)
\* C26: PhysioAssessmentApp submits the results at most once per run.
C26_SubmittedOnce == wizard.build = "app" => wizard.submitted <= 1

NoDuplicates(s) == \A i, j \in 1..Len(s) : s[i] = s[j] => i = j

Without(s, partId) == SelectSeq(s, LAMBDA id : id # partId)

NextInvoked(w) == w.event \in {<<"next">>, <<"ArrowRight">>}

\* C27: currentStep stays within 0..(number of steps), a state past the
\* first step has a selected body area, and nextStep on a step that is not
\* valid changes nothing.
C27_StepsInRange ==
  [][/\ wizard'.currentStep \in 0..wizard'.flowLength
     /\ wizard'.currentStep > 0 => Len(wizard'.selectedBodyParts) >= 1
     /\ wizard'.page = "results" => Len(wizard'.selectedBodyParts) >= 1
     /\ (/\ NextInvoked(wizard')
         /\ ~(IF wizard.build = "react" THEN canProceed(wizard)
              ELSE isCurrentStepValid(wizard))) =>
          wizard' = [wizard EXCEPT !.event = wizard'.event]]_vars

C27_Witness ==
  /\ wizard.build = "app"
  /\ wizard.page = "results"
  /\ wizard.event = <<"ArrowRight">>
  /\ wizard.currentStep = wizard.flowLength
  /\ wizard.flowLength = 2
  /\ wizard.submitted = 2
  /\ Len(wizard.selectedBodyParts) = 1

\* C30: selectedBodyParts never holds an id twice; a click on an area that
\* is not selected appends it, a click on a selected area removes it, and
\* the other areas keep their order.
C30_ToggleKeepsSet ==
  [][/\ NoDuplicates(wizard'.selectedBodyParts)
     /\ \A partId \in WizardParts :
          wizard'.event = <<"toggle", partId>> =>
            wizard'.selectedBodyParts =
              IF partId \in {wizard.selectedBodyParts[i] : i \in 1..Len(wizard.selectedBodyParts)}
              THEN Without(wizard.selectedBodyParts, partId)
              ELSE wizard.selectedBodyParts \o <<partId>>]_vars

C30_Witness ==
  /\ wizard.build = "app"
  /\ wizard.event = <<"toggle", "neck">>
  /\ wizard.selectedBodyParts = <<"lower_back", "head">>

====
